---- MODULE Spec2Model ----
(***************************************************************************)
(* The transition engine of router.js as bundled in ember-routing.js:      *)
(* Router, Transition, performTransition, validateEntry, finalization.     *)
(*                                                                         *)
(* JavaScript values are modelled as follows.  An object used as a hash    *)
(* is a function whose DOMAIN is its set of own keys.  undefined is the    *)
(* string "undef".  A Transition is identified by its sequence number; a   *)
(* handler object by its name (getHandler is a function of the name).      *)
(***************************************************************************)
EXTENDS Integers, Sequences, FiniteSets, TLC

(* ------------------------------ bounds -------------------------------- *)
\* Transitions that may be constructed in one run (Transition.currentSequence),
\* not counting the one that brings a settled router about in SpecSettled.
MaxTrans == 2
\* The longest handler chain handed to partitionHandlers and trigger when
\* they are applied on their own.
MaxChain == 3
\* The most declarations in one callback of the route DSL, and the deepest
\* nesting of resources.
MaxDecls == 2
MaxDepth == 3
\* The most routes added to a recognizer, and the longest path recognized
\* (paths with a query string apart).
MaxAdds == 3
MaxPath == 4

(* --------------------------- plain values ------------------------------ *)
Undef == "undef"
EmptyObj == [k \in {} |-> Undef]
TransitionAborted == "TransitionAborted"
\* Reasons a host hook may throw or reject with.
HookErrors == {"E1"}
\* Values a host `model` hook may resolve with.
HookModels == {"h1"}
\* Strings passed as context objects are treated as params (isParam).
ParamStrings == {"1", "2"}

isParam(object) == object \in ParamStrings
Truthy(v) == v # Undef

Get(obj, key) == IF key \in DOMAIN obj THEN obj[key] ELSE Undef
Put(obj, key, val) == [k \in DOMAIN obj \cup {key} |-> IF k = key THEN val ELSE obj[k]]
Del(obj, key) == [k \in DOMAIN obj \ {key} |-> obj[k]]

merge(hash, other) ==
  [k \in DOMAIN hash \cup DOMAIN other |-> IF k \in DOMAIN other THEN other[k] ELSE hash[k]]

RECURSIVE mergeSomeKeysFrom(_, _, _, _)
mergeSomeKeysFrom(hash, other, keys, i) ==
  IF i > Len(keys) THEN hash
  ELSE LET key == keys[i]
           h2 == IF key \in DOMAIN other
                 THEN IF other[key] \in {"null", "false", Undef} THEN Del(hash, key)
                      ELSE Put(hash, key, other[key])
                 ELSE hash
       IN mergeSomeKeysFrom(h2, other, keys, i + 1)

\* A null `other` (no query params given) returns at once; it is modelled by
\* the empty object, over which the loop changes nothing.
mergeSomeKeys(hash, other, keys) == mergeSomeKeysFrom(hash, other, keys, 1)

\* A variant of queryParamsEqual without its second loop.
queryParamsEqualOneWay(a, b) == \A key \in DOMAIN a : Get(b, key) = a[key]

queryParamsEqual(a, b) ==
  /\ \A key \in DOMAIN a : Get(b, key) = a[key]
  /\ \A key \in DOMAIN b : key \in DOMAIN a

(* --------------------------- route-recognizer -------------------------- *)
\* Strings of the recognizer are sequences of characters.
RECURSIVE split(_, _)
\* string.split(separator), for a separator of one character
split(string, separator) ==
  LET at == { i \in 1..Len(string) : string[i] = separator }
  IN IF at = {} THEN << string >>
     ELSE LET i == CHOOSE k \in at : \A j \in at : k <= j
          IN << SubSeq(string, 1, i - 1) >> \o split(SubSeq(string, i + 1, Len(string)), separator)

\* string.indexOf(character), counted from 1; 0 when there is none
indexOf(string, character) ==
  LET at == { i \in 1..Len(string) : string[i] = character }
  IN IF at = {} THEN 0 ELSE CHOOSE k \in at : \A j \in at : k <= j

\* A character specification; an absent validChars or invalidChars is Undef,
\* the invalidChars of a star segment is the empty string.
CharSpec(validChars, invalidChars, repeat) ==
  [validChars |-> validChars, invalidChars |-> invalidChars, repeat |-> repeat]

\* StaticSegment, DynamicSegment, StarSegment, EpsilonSegment
Segment(type, string) == [type |-> type, string |-> string]

\* segment.eachChar: the character specifications of a segment
eachChar(segment) ==
  CASE segment.type = "static" ->
         [i \in 1..Len(segment.string) |-> CharSpec(segment.string[i], Undef, FALSE)]
    [] segment.type = "dynamic" -> << CharSpec(Undef, "/", TRUE) >>
    [] segment.type = "star" -> << CharSpec(Undef, "", TRUE) >>
    [] OTHER -> << >>

\* segment.regex: a regular expression is a sequence of tokens, a character
\* that matches itself (escaped where it is special) or one of the two
\* capture groups.
DynamicGroup == "([^/]+)"
StarGroup == "(.+)"
regexOf(segment) ==
  CASE segment.type = "static" -> segment.string
    [] segment.type = "dynamic" -> << DynamicGroup >>
    [] segment.type = "star" -> << StarGroup >>
    [] OTHER -> << >>

\* parse(route, names, types): the segments of a route path, with the names
\* and the tally it adds to its arguments.
parseSegment(segment) ==
  IF Len(segment) >= 2 /\ segment[1] = ":"
  THEN Segment("dynamic", SubSeq(segment, 2, Len(segment)))
  ELSE IF Len(segment) >= 2 /\ segment[1] = "*"
  THEN Segment("star", SubSeq(segment, 2, Len(segment)))
  ELSE IF segment = << >> THEN Segment("epsilon", << >>)
  ELSE Segment("static", segment)

parse(route) ==
  LET segments == split(IF Len(route) > 0 /\ route[1] = "/" THEN SubSeq(route, 2, Len(route))
                        ELSE route, "/")
  IN [i \in 1..Len(segments) |-> parseSegment(segments[i])]

Count(segments, type) == Cardinality({ i \in 1..Len(segments) : segments[i].type = type })

NamesOf(segments) ==
  LET named == SelectSeq(segments, LAMBDA g : g.type \in {"dynamic", "star"})
  IN [i \in 1..Len(named) |-> named[i].string]

\* new State(charSpec); accepting tells that handlers, regex and types were
\* assigned.  States are held in recognizer.states and referred to by index.
State(charSpec) ==
  [charSpec |-> charSpec, nextStates |-> << >>, accepting |-> FALSE,
   handlers |-> << >>, regex |-> << >>,
   types |-> [statics |-> 0, dynamics |-> 0, stars |-> 0]]

\* new RouteRecognizer(): the root state, no names.
NewRecognizer ==
  [states |-> << State(CharSpec(Undef, Undef, FALSE)) >>, names |-> EmptyObj]

\* State.prototype.get: the index of the child with the character
\* specification, 0 when there is none
get(states, state, charSpec) ==
  LET nextStates == states[state].nextStates
      at == { i \in 1..Len(nextStates) :
                /\ states[nextStates[i]].charSpec.validChars = charSpec.validChars
                /\ states[nextStates[i]].charSpec.invalidChars = charSpec.invalidChars }
  IN IF at = {} THEN 0 ELSE nextStates[CHOOSE k \in at : \A j \in at : k <= j]

\* State.prototype.put: the states and the index of the child
put(states, state, charSpec) ==
  IF get(states, state, charSpec) # 0
  THEN [states |-> states, state |-> get(states, state, charSpec)]
  ELSE LET new == Len(states) + 1
           child == [State(charSpec) EXCEPT !.nextStates = IF charSpec.repeat THEN << new >>
                                                             ELSE << >>]
       IN [states |-> Append([states EXCEPT ![state].nextStates = Append(@, new)], child),
           state |-> new]

RECURSIVE addSegment(_, _, _, _)
\* addSegment(currentState, segment), from the i-th character specification
addSegment(states, currentState, chars, i) ==
  IF i > Len(chars) THEN [states |-> states, state |-> currentState]
  ELSE LET p == put(states, currentState, chars[i])
       IN addSegment(p.states, p.state, chars, i + 1)

RECURSIVE addSegments(_, _, _)
\* The inner loop of add over the segments of one route.
addSegments(acc, segments, j) ==
  IF j > Len(segments) THEN acc
  ELSE IF segments[j].type = "epsilon" THEN addSegments(acc, segments, j + 1)
  ELSE LET slash == put(acc.states, acc.currentState, CharSpec("/", Undef, FALSE))
           p == addSegment(slash.states, slash.state, eachChar(segments[j]), 1)
       IN addSegments([acc EXCEPT !.states = p.states, !.currentState = p.state,
                                  !.isEmpty = FALSE,
                                  !.regex = acc.regex \o << "/" >> \o regexOf(segments[j])],
                      segments, j + 1)

RECURSIVE addRoutes(_, _, _)
\* The outer loop of add over routes.
addRoutes(acc, routes, i) ==
  IF i > Len(routes) THEN acc
  ELSE LET segments == parse(routes[i].path)
           a == addSegments(acc, segments, 1)
       IN addRoutes([a EXCEPT !.allSegments = acc.allSegments \o segments,
                              !.types = [statics  |-> acc.types.statics + Count(segments, "static"),
                                         dynamics |-> acc.types.dynamics + Count(segments, "dynamic"),
                                         stars    |-> acc.types.stars + Count(segments, "star")],
                              !.handlers = Append(acc.handlers,
                                                  [handler |-> routes[i].handler,
                                                   names |-> NamesOf(segments),
                                                   queryParams |-> routes[i].queryParams])],
                    routes, i + 1)

\* RouteRecognizer.prototype.add(routes, {as: name}); the regex is anchored
\* at both ends.
add(rec, routes, as) ==
  LET acc == addRoutes([states |-> rec.states, currentState |-> 1, isEmpty |-> TRUE,
                        regex |-> << >>, allSegments |-> << >>, handlers |-> << >>,
                        types |-> [statics |-> 0, dynamics |-> 0, stars |-> 0]], routes, 1)
      last == IF acc.isEmpty THEN put(acc.states, acc.currentState, CharSpec("/", Undef, FALSE))
              ELSE [states |-> acc.states, state |-> acc.currentState]
  IN [states |-> [last.states EXCEPT ![last.state].accepting = TRUE,
                                     ![last.state].handlers = acc.handlers,
                                     ![last.state].regex = IF acc.isEmpty THEN << "/" >>
                                                           ELSE acc.regex,
                                     ![last.state].types = acc.types],
      names |-> Put(rec.names, as, [segments |-> acc.allSegments, handlers |-> acc.handlers])]

\* State.prototype.match: the children that accept the character
match(states, state, char) ==
  SelectSeq(states[state].nextStates,
            LAMBDA child :
              IF states[child].charSpec.validChars # Undef
              THEN states[child].charSpec.validChars = char
              ELSE /\ states[child].charSpec.invalidChars # Undef
                   /\ states[child].charSpec.invalidChars # char)

RECURSIVE recognizeChar(_, _, _, _)
\* recognizeChar(states, char), from the i-th of the current states
recognizeChar(states, current, i, char) ==
  IF i > Len(current) THEN << >>
  ELSE match(states, current[i], char) \o recognizeChar(states, current, i + 1, char)

RECURSIVE walk(_, _, _, _)
\* The loop of recognize over the characters of the path.
walk(states, current, path, i) ==
  IF i > Len(path) THEN current
  ELSE LET next == recognizeChar(states, current, 1, path[i])
       IN IF next = << >> THEN next ELSE walk(states, next, path, i + 1)

\* A variant of compare that ranks by the star segments alone.
compareStars(a, b) == a.types.stars - b.types.stars

\* The comparison function of sortSolutions.
compare(a, b) ==
  IF a.types.stars # b.types.stars THEN a.types.stars - b.types.stars
  ELSE IF a.types.dynamics # b.types.dynamics THEN a.types.dynamics - b.types.dynamics
  ELSE IF a.types.statics # b.types.statics THEN b.types.statics - a.types.statics
  ELSE 0

RECURSIVE sortSolutions(_, _, _)
\* sortSolutions: Array.prototype.sort with compare, taken as the stable
\* insertion sort that it is for arrays this short; sorted holds the first
\* i - 1 solutions in order.
sortSolutions(states, solutions, sorted) ==
  IF solutions = << >> THEN sorted
  ELSE LET x == solutions[1]
           before == { k \in 1..Len(sorted) : compare(states[sorted[k]], states[x]) <= 0 }
           at == IF before = {} THEN 0 ELSE CHOOSE k \in before : \A j \in before : j <= k
       IN sortSolutions(states, Tail(solutions),
                        SubSeq(sorted, 1, at) \o << x >> \o SubSeq(sorted, at + 1, Len(sorted)))

RECURSIVE matchFrom(_, _, _, _)
RECURSIVE matchGroup(_, _, _, _, _)
\* path.match(regex): the regex from token i against the path from
\* character j; a group first takes as many characters as it can.
matchFrom(regex, i, path, j) ==
  IF i > Len(regex) THEN [ok |-> j > Len(path), captures |-> << >>]
  ELSE IF regex[i] \in {DynamicGroup, StarGroup}
  THEN matchGroup(regex, i, path, j, Len(path) - j + 1)
  ELSE IF j <= Len(path) /\ path[j] = regex[i] THEN matchFrom(regex, i + 1, path, j + 1)
  ELSE [ok |-> FALSE, captures |-> << >>]

matchGroup(regex, i, path, j, n) ==
  IF n < 1 THEN [ok |-> FALSE, captures |-> << >>]
  ELSE IF regex[i] = DynamicGroup /\ \E k \in j..(j + n - 1) : path[k] = "/"
  THEN matchGroup(regex, i, path, j, n - 1)
  ELSE LET rest == matchFrom(regex, i + 1, path, j + n)
       IN IF rest.ok
          THEN [ok |-> TRUE, captures |-> << SubSeq(path, j, j + n - 1) >> \o rest.captures]
          ELSE matchGroup(regex, i, path, j, n - 1)

\* The values of query params: the boolean true, or a string.
True == [isTrue |-> TRUE, string |-> << >>]
Str(string) == [isTrue |-> FALSE, string |-> string]
\* JavaScript truthiness of such a value (and of an absent one)
TruthyValue(obj, key) == key \in DOMAIN obj /\ (obj[key].isTrue \/ obj[key].string # << >>)

\* The number of names of the handlers before the k-th.
RECURSIVE NamesBefore(_, _)
NamesBefore(handlers, k) ==
  IF k <= 1 THEN 0 ELSE NamesBefore(handlers, k - 1) + Len(handlers[k - 1].names)

\* A variant of findHandler that hands every entry the first captures.
findHandlerFromFirst(state, path, queryParams) ==
  LET captures == matchFrom(state.regex, 1, path, 1).captures
  IN [i \in 1..Len(state.handlers) |->
        LET handler == state.handlers[i]
        IN [handler |-> handler.handler,
            params |-> [name \in { handler.names[j] : j \in 1..Len(handler.names) } |->
                          captures[CHOOSE j \in 1..Len(handler.names) :
                                     /\ handler.names[j] = name
                                     /\ \A l \in (j + 1)..Len(handler.names) :
                                          handler.names[l] # name]],
            isDynamic |-> Len(handler.names) # 0,
            queryParams |->
              [key \in { handler.queryParams[j] : j \in 1..Len(handler.queryParams) }
                         \cap { key \in DOMAIN queryParams : TruthyValue(queryParams, key) }
                 |-> queryParams[key]]]]

\* findHandler(state, path, queryParams); a result entry of a handler
\* without query params has no queryParams, here the empty object.
findHandler(state, path, queryParams) ==
  LET captures == matchFrom(state.regex, 1, path, 1).captures
  IN [i \in 1..Len(state.handlers) |->
        LET handler == state.handlers[i]
            currentCapture == NamesBefore(state.handlers, i)
        IN [handler |-> handler.handler,
            params |-> [name \in { handler.names[j] : j \in 1..Len(handler.names) } |->
                          captures[currentCapture
                                   + (CHOOSE j \in 1..Len(handler.names) :
                                        /\ handler.names[j] = name
                                        /\ \A l \in (j + 1)..Len(handler.names) :
                                             handler.names[l] # name)]],
            isDynamic |-> Len(handler.names) # 0,
            queryParams |->
              [key \in { handler.queryParams[j] : j \in 1..Len(handler.queryParams) }
                         \cap { key \in DOMAIN queryParams : TruthyValue(queryParams, key) }
                 |-> queryParams[key]]]]

\* encodeURIComponent and decodeURIComponent for the characters used here:
\* the reserved characters are escaped, the others stand for themselves.
Escapes ==
  [c \in {"/", "?", "=", "&", "%"} |->
     CASE c = "/" -> << "%", "2", "F" >>
       [] c = "?" -> << "%", "3", "F" >>
       [] c = "=" -> << "%", "3", "D" >>
       [] c = "&" -> << "%", "2", "6" >>
       [] OTHER   -> << "%", "2", "5" >>]

RECURSIVE encodeURIComponent(_)
encodeURIComponent(string) ==
  IF string = << >> THEN << >>
  ELSE (IF string[1] \in DOMAIN Escapes THEN Escapes[string[1]] ELSE << string[1] >>)
         \o encodeURIComponent(Tail(string))

RECURSIVE decodeURIComponent(_)
\* A "%" that does not start an escape makes decodeURIComponent throw a
\* URIError.
decodeURIComponent(string) ==
  IF string = << >> THEN [threw |-> FALSE, string |-> << >>]
  ELSE IF string[1] = "%"
  THEN IF Len(string) >= 3 /\ \E c \in DOMAIN Escapes : Escapes[c] = SubSeq(string, 1, 3)
       THEN LET rest == decodeURIComponent(SubSeq(string, 4, Len(string)))
            IN [threw |-> rest.threw,
                string |-> << CHOOSE c \in DOMAIN Escapes : Escapes[c] = SubSeq(string, 1, 3) >>
                             \o rest.string]
       ELSE [threw |-> TRUE, string |-> << >>]
  ELSE LET rest == decodeURIComponent(Tail(string))
       IN [threw |-> rest.threw, string |-> << string[1] >> \o rest.string]

RECURSIVE parsePairs(_, _, _)
\* The loop of parseQueryString over the pairs.
parsePairs(pairs, i, acc) ==
  IF i > Len(pairs) \/ acc.threw THEN acc
  ELSE LET pair == split(pairs[i], "=")
           key == decodeURIComponent(pair[1])
           hasValue == Len(pair) >= 2 /\ pair[2] # << >>
           value == IF hasValue THEN decodeURIComponent(pair[2])
                    ELSE [threw |-> FALSE, string |-> << >>]
       IN parsePairs(pairs, i + 1,
                     IF key.threw \/ value.threw THEN [acc EXCEPT !.threw = TRUE]
                     ELSE [acc EXCEPT !.queryParams =
                             Put(acc.queryParams, key.string,
                                 IF hasValue THEN Str(value.string) ELSE True)])

\* RouteRecognizer.prototype.parseQueryString
parseQueryString(queryString) ==
  parsePairs(split(queryString, "&"), 1, [threw |-> FALSE, queryParams |-> EmptyObj])

\* What recognize did: it threw, returned undefined, or returned the result
\* of findHandler for the accepting state it chose.
Recognized(threw, undefined, state, result) ==
  [threw |-> threw, undefined |-> undefined, state |-> state, result |-> result]

\* RouteRecognizer.prototype.recognize
RouteRecognizer_recognize(rec, url) ==
  LET queryStart == indexOf(url, "?")
      parsed == IF queryStart # 0
                THEN parseQueryString(SubSeq(url, queryStart + 1, Len(url)))
                ELSE [threw |-> FALSE, queryParams |-> EmptyObj]
      path0 == IF queryStart # 0 THEN SubSeq(url, 1, queryStart - 1) ELSE url
      path1 == IF path0 = << >> \/ path0[1] # "/" THEN << "/" >> \o path0 ELSE path0
      path == IF Len(path1) > 1 /\ path1[Len(path1)] = "/" THEN SubSeq(path1, 1, Len(path1) - 1)
              ELSE path1
      states == walk(rec.states, << 1 >>, path, 1)
      solutions == sortSolutions(rec.states,
                                 SelectSeq(states, LAMBDA x : rec.states[x].accepting), << >>)
  IN IF parsed.threw THEN Recognized(TRUE, FALSE, 0, << >>)
     ELSE IF solutions = << >> THEN Recognized(FALSE, TRUE, 0, << >>)
     ELSE IF ~matchFrom(rec.states[solutions[1]].regex, 1, path, 1).ok
     THEN \* captures is null: reading captures[...] throws a TypeError
          Recognized(Len(rec.states[solutions[1]].handlers) > 0, FALSE, solutions[1], << >>)
     ELSE Recognized(FALSE, FALSE, solutions[1],
                     findHandler(rec.states[solutions[1]], path, parsed.queryParams))

\* String(undefined), what a segment without a value in params generates
UndefinedString == << "u", "n", "d", "e", "f", "i", "n", "e", "d" >>

\* A variant of generateSegment that leaves the values of params out.
generateSegmentBare(segment, params) ==
  CASE segment.type = "static" -> segment.string
    [] segment.type \in {"dynamic", "star"} -> segment.string
    [] OTHER -> << >>

\* segment.generate(params)
generateSegment(segment, params) ==
  CASE segment.type = "static" -> segment.string
    [] segment.type \in {"dynamic", "star"} ->
         IF segment.string \in DOMAIN params THEN params[segment.string] ELSE UndefinedString
    [] OTHER -> << >>

\* array.join(separator)
RECURSIVE join(_, _)
join(array, separator) ==
  IF array = << >> THEN << >>
  ELSE IF Len(array) = 1 THEN array[1]
  ELSE array[1] \o << separator >> \o join(Tail(array), separator)

\* The query params of the handlers of a chain (allowedParams)
AllowedParams(handlers) ==
  UNION { { handlers[i].queryParams[j] : j \in 1..Len(handlers[i].queryParams) } :
          i \in 1..Len(handlers) }

\* A variant of generateQueryString that allows every key.
generateQueryStringAny(params, handlers) ==
  LET pairs == [i \in 1..Len(params) |->
                  encodeURIComponent(params[i].key)
                    \o (IF params[i].value.isTrue THEN << >>
                        ELSE << "=" >> \o encodeURIComponent(params[i].value.string))]
  IN IF pairs = << >> THEN [threw |-> FALSE, string |-> << >>]
     ELSE [threw |-> FALSE, string |-> << "?" >> \o join(pairs, "&")]

\* RouteRecognizer.prototype.generateQueryString(params, handlers); params
\* is the sequence of the key and value pairs in the order of for..in.
generateQueryString(params, handlers) ==
  LET pairs == [i \in 1..Len(params) |->
                  encodeURIComponent(params[i].key)
                    \o (IF params[i].value.isTrue THEN << >>
                        ELSE << "=" >> \o encodeURIComponent(params[i].value.string))]
  IN IF \E i \in 1..Len(params) : params[i].key \notin AllowedParams(handlers)
     THEN [threw |-> TRUE, string |-> << >>]
     ELSE IF pairs = << >> THEN [threw |-> FALSE, string |-> << >>]
     ELSE [threw |-> FALSE, string |-> << "?" >> \o join(pairs, "&")]

RECURSIVE generateSegments(_, _, _)
\* The loop of generate over the segments.
generateSegments(segments, params, i) ==
  IF i > Len(segments) THEN << >>
  ELSE (IF segments[i].type = "epsilon" THEN << >>
        ELSE << "/" >> \o generateSegment(segments[i], params))
         \o generateSegments(segments, params, i + 1)

\* RouteRecognizer.prototype.generate(name, params); hasQueryParams tells
\* whether params.queryParams is there.
generate(rec, name, params, hasQueryParams, queryParams) ==
  IF name \notin DOMAIN rec.names THEN [threw |-> TRUE, string |-> << >>]
  ELSE LET route == rec.names[name]
           output0 == generateSegments(route.segments, params, 1)
           output == IF output0 = << >> \/ output0[1] # "/" THEN << "/" >> \o output0
                     ELSE output0
           query == IF hasQueryParams THEN generateQueryString(queryParams, route.handlers)
                    ELSE [threw |-> FALSE, string |-> << >>]
       IN IF query.threw THEN query
          ELSE [threw |-> FALSE, string |-> output \o query.string]

(* ------------------------ the registered routes ------------------------ *)
\* recognizer.handlersFor(name): the chain of a named route, root first.
RouteNames == {"about", "post"}
Handlers == {"app", "about", "post", "hidden"}

RecogHandler(h, names, qps) == [handler |-> h, names |-> names, queryParams |-> qps]

handlersFor(name) ==
  IF name = "about"
  THEN << RecogHandler("about", <<>>, <<>>) >>
  ELSE << RecogHandler("app", <<>>, <<>>), RecogHandler("post", <<"id">>, <<"q">>) >>

\* The hooks each host handler object defines.
HandlerHooks(h) ==
  CASE h = "app"   -> {"afterModel", "setup", "exit"}
    [] h = "about" -> {"setup"}
    [] OTHER       -> {"beforeModel", "model", "afterModel", "enter", "setup", "exit"}

\* handler.inaccessibleByURL
InaccessibleByURL(h) == h = "hidden"

\* Handlers that define events.error, and whether that function returns true.
DefinesError(h) == h \in {"app", "post"}
ErrorReturnsTrue(h) == h = "post"

\* The actions sent with router.trigger / router.send, the handlers that
\* define each of them (handler.events[name], handler._actions[name] under
\* Ember), and whether that function returns true.
EventNames == {"error", "loading", "go"}
DefinesEvent(h, name) ==
  \/ name = "error" /\ DefinesError(h)
  \/ name = "loading" /\ h = "post"
  \/ name = "go" /\ h \in {"about", "post"}
EventReturnsTrue(h, name) ==
  \/ name = "error" /\ ErrorReturnsTrue(h)
  \/ name = "loading"
  \/ name = "go" /\ h = "post"

\* The keys of Ember's defaultActionHandlers.
DefaultActionHandlers == {"willResolveModel", "error", "loading"}

(* --------------------- handler lists and HandlerInfos ------------------ *)
\* One entry of the list performTransition receives: a handlersFor entry
\* decorated by generateHandlerInfosWithQueryParams (hasNames, never
\* isDynamic) or a recognize() result (isDynamic and params, no names).
generateHandlerInfosWithQueryParams(currentQueryParams, handlers, queryParams) ==
  [i \in 1..Len(handlers) |->
     LET handler == handlers[i]
         activeQueryParams ==
           mergeSomeKeys(mergeSomeKeys(EmptyObj, currentQueryParams, handler.queryParams),
                         queryParams, handler.queryParams)
     IN [handler     |-> handler.handler,
         names       |-> handler.names,
         hasNames    |-> TRUE,
         isDynamic   |-> FALSE,
         params      |-> EmptyObj,
         queryParams |-> IF Len(handler.queryParams) > 0 THEN activeQueryParams ELSE EmptyObj]]

\* generateHandlerInfos: the HandlerInfos of a new Transition; context is
\* not set until validation resolves it.
generateHandlerInfos(recogHandlers) ==
  [i \in 1..Len(recogHandlers) |->
     LET handlerObj == recogHandlers[i]
     IN [name        |-> handlerObj.handler,
         isDynamic   |-> handlerObj.isDynamic \/ (handlerObj.hasNames /\ Len(handlerObj.names) > 0),
         context     |-> Undef,
         queryParams |-> handlerObj.queryParams]]

(* ------------------------------ match point ---------------------------- *)
\* getMatchPointObject without its look at the active Transition.
getMatchPointObjectNoActive(objects, handlerName, hasActive, actResolved, actProvided, paramName, params) ==
  IF Len(objects) > 0 /\ Truthy(paramName)
  THEN LET object == objects[Len(objects)]
           rest == SubSeq(objects, 1, Len(objects) - 1)
       IN IF isParam(object)
          THEN [obj |-> Undef, objects |-> rest, params |-> Put(params, paramName, object)]
          ELSE [obj |-> object, objects |-> rest, params |-> params]
  ELSE [obj |-> Undef, objects |-> objects, params |-> params]

\* Returns [obj, objects, params]: the object found for the handler, the
\* objects left, and params with a string object recorded as a param.
\* paramName is Undef when the handler has no dynamic segment name.
getMatchPointObject(objects, handlerName, hasActive, actResolved, actProvided, paramName, params) ==
  IF Len(objects) > 0 /\ Truthy(paramName)
  THEN LET object == objects[Len(objects)]
           rest == SubSeq(objects, 1, Len(objects) - 1)
       IN IF isParam(object)
          THEN [obj |-> Undef, objects |-> rest, params |-> Put(params, paramName, object)]
          ELSE [obj |-> object, objects |-> rest, params |-> params]
  ELSE IF hasActive
  THEN [obj |-> IF Truthy(Get(actResolved, handlerName)) THEN actResolved[handlerName]
                ELSE IF Truthy(paramName) THEN Get(actProvided, handlerName) ELSE Undef,
        objects |-> objects, params |-> params]
  ELSE [obj |-> Undef, objects |-> objects, params |-> params]

RECURSIVE namedParams(_, _, _, _, _)
\* The loop over handlerObj.names of a named transition: each name takes the
\* param already known, else the previously active one.
namedParams(names, j, params, oldParams, hp) ==
  IF j > Len(names) THEN [params |-> params, hp |-> hp]
  ELSE LET name == names[j]
           v == IF Truthy(Get(params, name)) THEN params[name] ELSE Get(oldParams, name)
       IN namedParams(names, j + 1, Put(params, name, v), oldParams, Put(hp, name, v))

\* One iteration of the loop of getMatchPoint, for the handler at 0-based
\* index i; acc carries matchPoint, objects, params, providedModels and
\* handlerParams between iterations.
MatchPointStep(acc, i, handlers, currentHandlerInfos, oldParams, hasActive, actResolved, actProvided) ==
  LET handlerObj == handlers[i + 1]
      handlerName == handlerObj.handler
      hasOld == i + 1 <= Len(currentHandlerInfos)
      nameChanged == ~hasOld \/ currentHandlerInfos[i + 1].name # handlerName
      qpChanged == hasOld /\ ~queryParamsEqual(currentHandlerInfos[i + 1].queryParams,
                                                handlerObj.queryParams)
  IN IF handlerObj.isDynamic
     THEN \* URL transition
          LET r == getMatchPointObject(acc.objects, handlerName, hasActive, actResolved,
                                       actProvided, "true", acc.params)
          IN IF Truthy(r.obj)
             THEN [acc EXCEPT !.matchPoint = i,
                              !.objects = r.objects,
                              !.params = r.params,
                              !.providedModels = Put(acc.providedModels, handlerName, r.obj)]
             ELSE LET paramChanged == \E prop \in DOMAIN handlerObj.params :
                                         Get(oldParams, prop) # handlerObj.params[prop]
                  IN [acc EXCEPT !.matchPoint = IF nameChanged \/ paramChanged \/ qpChanged
                                                 THEN i ELSE acc.matchPoint,
                                 !.objects = r.objects,
                                 !.params = merge(r.params, handlerObj.params),
                                 !.handlerParams = Put(acc.handlerParams, handlerName,
                                                       handlerObj.params)]
     ELSE IF handlerObj.hasNames
     THEN \* named transition
          LET objectsLeft == Len(acc.objects) > 0
              r == getMatchPointObject(acc.objects, handlerName, hasActive, actResolved,
                                       actProvided,
                                       IF Len(handlerObj.names) > 0 THEN handlerObj.names[1] ELSE Undef,
                                       acc.params)
              changed == nameChanged \/ objectsLeft \/ qpChanged
              mp == IF changed THEN i ELSE acc.matchPoint
          IN IF Truthy(r.obj)
             THEN [acc EXCEPT !.matchPoint = mp,
                              !.objects = r.objects,
                              !.params = r.params,
                              !.providedModels = Put(acc.providedModels, handlerName, r.obj)]
             ELSE LET np == namedParams(handlerObj.names, 1, r.params, oldParams, EmptyObj)
                  IN [acc EXCEPT !.matchPoint = mp,
                                 !.objects = r.objects,
                                 !.params = np.params,
                                 !.handlerParams = Put(acc.handlerParams, handlerName, np.hp)]
     ELSE [acc EXCEPT !.matchPoint = IF nameChanged \/ qpChanged THEN i ELSE acc.matchPoint]

RECURSIVE MatchPointLoop(_, _, _, _, _, _, _, _)
MatchPointLoop(acc, i, handlers, currentHandlerInfos, oldParams, hasActive, actResolved, actProvided) ==
  IF i < 0 THEN acc
  ELSE MatchPointLoop(
         MatchPointStep(acc, i, handlers, currentHandlerInfos, oldParams, hasActive,
                        actResolved, actProvided),
         i - 1, handlers, currentHandlerInfos, oldParams, hasActive, actResolved, actProvided)

\* getMatchPoint: threw is TRUE when more context objects were passed than
\* the chain has dynamic segments.  matchPoint is the 0-based index of the
\* first handler whose hooks must run (handlers.length when none).
getMatchPoint(currentHandlerInfos, oldParams, hasActive, actResolved, actProvided, handlers, objects, inputParams) ==
  LET acc == MatchPointLoop([matchPoint |-> Len(handlers), objects |-> objects,
                             params |-> inputParams, providedModels |-> EmptyObj,
                             handlerParams |-> EmptyObj],
                            Len(handlers) - 1, handlers, currentHandlerInfos, oldParams,
                            hasActive, actResolved, actProvided)
  IN [threw          |-> Len(acc.objects) > 0,
      matchPoint     |-> acc.matchPoint,
      providedModels |-> acc.providedModels,
      params         |-> acc.params,
      handlerParams  |-> acc.handlerParams,
      pivotHandler   |-> IF acc.matchPoint >= 1 /\ acc.matchPoint <= Len(currentHandlerInfos)
                         THEN currentHandlerInfos[acc.matchPoint].name ELSE Undef]

(* -------------------------- de-duplication ----------------------------- *)
\* transitionsIdentical with the comparison of the models inverted.
transitionsIdenticalInverted(oldTransition, targetName, providedModelsArray, queryParams) ==
  /\ oldTransition.targetName = targetName
  /\ Len(oldTransition.providedModelsArray) = Len(providedModelsArray)
  /\ \A i \in 1..Len(providedModelsArray) :
        oldTransition.providedModelsArray[i] # providedModelsArray[i]
  /\ queryParamsEqual(oldTransition.queryParams, queryParams)

transitionsIdentical(oldTransition, targetName, providedModelsArray, queryParams) ==
  /\ oldTransition.targetName = targetName
  /\ Len(oldTransition.providedModelsArray) = Len(providedModelsArray)
  /\ \A i \in 1..Len(providedModelsArray) :
        oldTransition.providedModelsArray[i] = providedModelsArray[i]
  /\ queryParamsEqual(oldTransition.queryParams, queryParams)

(* ------------------------------- inputs -------------------------------- *)
NoQP == EmptyObj
QX == [k \in {"q"} |-> "x"]

Req(name, models, qp) == [name |-> name, models |-> models, queryParams |-> qp]

\* The named requests tried by transitionTo, and those tried by replaceWith.
NamedRequests ==
  { Req("about", <<>>, NoQP), Req("post", <<"m1">>, NoQP),
    Req("post", <<"m1">>, QX), Req("post", <<>>, NoQP) }
ReplaceRequests == { Req("about", <<>>, NoQP) }
\* Requests with a structural error: a name that is not registered, more
\* context objects than the chain of the named route has dynamic segments.
StructuralErrorRequests ==
  { Req("bogus", <<>>, NoQP), Req("about", <<"m1">>, NoQP), Req("post", <<"m1", "m2">>, NoQP) }
Urls == { "/post/1", "/hidden", "/bogus" }

RecogResult(h, params, dyn, qp) ==
  [handler |-> h, names |-> <<>>, hasNames |-> FALSE, isDynamic |-> dyn,
   params |-> params, queryParams |-> qp]

\* recognizer.recognize(url) for the routes registered above.
recognize(url) ==
  CASE url = "/about" ->
         << RecogResult("about", EmptyObj, FALSE, EmptyObj) >>
    [] url = "/post/1" ->
         << RecogResult("app", EmptyObj, FALSE, EmptyObj),
            RecogResult("post", [k \in {"id"} |-> "1"], TRUE, EmptyObj) >>
    [] url = "/hidden" ->
         << RecogResult("hidden", EmptyObj, FALSE, EmptyObj) >>
    [] OTHER -> << >>

(* -------------------------------- state -------------------------------- *)
VARIABLES
  currentSequence,      \* Transition.currentSequence
  trans,                \* the Transition objects, by sequence number
  activeTransition,     \* router.activeTransition (0 is null)
  currentHandlerInfos,  \* router.currentHandlerInfos (null is << >>)
  targetHandlerInfos,   \* router.targetHandlerInfos (null is << >>)
  currentParams,        \* router.currentParams
  currentQueryParams,   \* router.currentQueryParams
  handlerContext,       \* handler.context of each handler object
  running,              \* the Transition whose finalization is on the stack (0: none)
  pure,                 \* the application of a pure function checked on its own
                        \* (SpecPure, SpecRecognizer); NoPure in the runs of the
                        \* router
  recognizer,           \* router.recognizer, a RouteRecognizer (SpecRecognizer);
                        \* in the runs of the router its routes are those of
                        \* handlersFor and recognize above
  lastCall              \* the call that made the latest step, if it was one of
                        \* transitionTo, replaceWith, handleURL, retry (on: the
                        \* receiver of retry): the request it made of
                        \* performTransition (name, models, queryParams), what it
                        \* returned (ret), router.activeTransition before the call
                        \* (was) and as performTransition found it (found)

vars == << currentSequence, trans, activeTransition, currentHandlerInfos, targetHandlerInfos,
           currentParams, currentQueryParams, handlerContext, running, pure, recognizer,
           lastCall >>

routerVars == << currentHandlerInfos, targetHandlerInfos, currentParams, currentQueryParams,
                 handlerContext >>

routerState == << currentSequence, trans, activeTransition, routerVars, running, lastCall >>

Pc(at, k, reason) == [at |-> at, k |-> k, reason |-> reason]

\* The latest event of a host validation hook of a Transition: the hook
\* (0 beforeModel, 1 model, 2 afterModel) of the handler at index was
\* called ("start") or what it returned has settled ("settle").
NoHook == [index |-> 0, hook |-> 0, what |-> "none"]

\* new Transition(router, promise), with the prototype's defaults.
NewTransition(promiseState, value) ==
  [ targetName |-> "null", urlMethod |-> "update",
    providedModels |-> EmptyObj, resolvedModels |-> EmptyObj,
    providedModelsArray |-> << >>, params |-> EmptyObj, queryParams |-> EmptyObj,
    data |-> 0, pivotHandler |-> Undef, resolveIndex |-> 0, handlerInfos |-> << >>,
    isAborted |-> FALSE, isActive |-> TRUE,
    promise |-> promiseState, value |-> value,
    \* closure state of performTransition / validateEntry
    matchPoint |-> 0, handlerParams |-> EmptyObj, context |-> Undef, todo |-> << >>,
    \* closure state of setupContexts: partition.exited and partition.unchanged
    exited |-> << >>, unchanged |-> << >>,
    pc |-> Pc("done", 0, "none"),
    \* observations
    lastHook |-> NoHook, hooked |-> {}, errorReason |-> "none", errorSeen |-> << >>,
    urlCalls |-> << >>, willTransition |-> FALSE,
    \* the exit, enter and setup hooks the finalization has called so far
    lifecycle |-> << >> ]

NoOut == [updatedContext |-> << >>, exited |-> << >>, entered |-> << >>, unchanged |-> << >>,
          seen |-> << >>, threw |-> FALSE, defaultRan |-> FALSE, matches |-> << >>]

NoPure == [fn |-> "none", old |-> << >>, new |-> << >>, isNull |-> FALSE, name |-> "null",
           ignoreFailure |-> FALSE, hasTriggerEvent |-> FALSE, decls |-> << >>,
           namedSubstates |-> FALSE, done |-> FALSE, out |-> NoOut]

NoCall ==
  [op |-> "none", on |-> 0, ret |-> 0, was |-> 0, found |-> 0, threw |-> FALSE,
   name |-> "null", models |-> << >>, queryParams |-> EmptyObj, hooks |-> << >>]

InitRouter ==
  /\ currentSequence = 0
  /\ trans = << >>
  /\ activeTransition = 0
  /\ currentHandlerInfos = << >>
  /\ targetHandlerInfos = << >>
  /\ currentParams = EmptyObj
  /\ currentQueryParams = EmptyObj
  /\ handlerContext = [h \in Handlers |-> Undef]
  /\ running = 0
  /\ lastCall = NoCall

Init == InitRouter /\ pure = NoPure /\ recognizer = NewRecognizer

Transitions == 1..currentSequence

Call(op, ret, found, threw, name, models, queryParams) ==
  [op |-> op.op, on |-> op.on, ret |-> ret, was |-> activeTransition, found |-> found,
   threw |-> threw, name |-> name, models |-> models, queryParams |-> queryParams,
   hooks |-> << >>]

(* ------------------------- Transition.prototype ------------------------ *)
\* abort() without `this.isActive = false`.
abortTransKeepsActive(tr, t) ==
  IF tr[t].isAborted THEN tr
  ELSE [tr EXCEPT ![t].isAborted = TRUE]

\* abort(): the Transition objects after t.abort() ...
abortTrans(tr, t) ==
  IF tr[t].isAborted THEN tr
  ELSE [tr EXCEPT ![t].isAborted = TRUE, ![t].isActive = FALSE]

\* ... and router.activeTransition after it.
abortSlot(tr, t, slot) == IF tr[t].isAborted THEN slot ELSE 0

\* method(m), applied by replaceWith and handleURL to the Transition that
\* doTransition returned; transitionTo applies none ("keep").
applyMethod(tr, t, method) ==
  IF method = "keep" THEN tr ELSE [tr EXCEPT ![t].urlMethod = method]

RECURSIVE triggerFrom(_, _, _)
\* trigger(): the handlers whose events.error runs, walking from the handler
\* at index i toward the root; the walk goes on only past a handler whose
\* function returns true.
triggerFrom(handlerInfos, i, seen) ==
  IF i < 1 THEN seen
  ELSE LET h == handlerInfos[i].name
       IN IF DefinesError(h)
          THEN IF ErrorReturnsTrue(h)
               THEN triggerFrom(handlerInfos, i - 1, Append(seen, h))
               ELSE Append(seen, h)
          ELSE triggerFrom(handlerInfos, i - 1, seen)

\* transition.trigger(true, 'error', reason, ...): fired on
\* handlerInfos.slice(0, resolveIndex + 1).
triggerError(T, reason) ==
  LET last == IF T.resolveIndex + 1 <= Len(T.handlerInfos) THEN T.resolveIndex + 1
              ELSE Len(T.handlerInfos)
  IN [T EXCEPT !.errorReason = reason,
               !.errorSeen = triggerFrom(T.handlerInfos, last, << >>)]

(* ----------------------------- validateEntry --------------------------- *)
RECURSIVE validateEntry(_, _)
\* The synchronous part of validateEntry: handlers before the match point
\* take their context without hooks; then either validation is complete
\* (transitionSuccess is queued) or the promise chain of the handler at
\* resolveIndex is queued, starting with handleAbort.
validateEntry(T, hctx) ==
  LET index == T.resolveIndex
  IN IF index = Len(T.handlerInfos) THEN [T EXCEPT !.pc = Pc("success", 0, "none")]
     ELSE IF index < T.matchPoint
     THEN LET name == T.handlerInfos[index + 1].name
              model == IF Truthy(Get(T.providedModels, name)) THEN T.providedModels[name]
                       ELSE hctx[name]
          IN validateEntry([T EXCEPT !.resolvedModels = Put(T.resolvedModels, name, model),
                                     !.handlerInfos[index + 1].context = model,
                                     !.resolveIndex = index + 1], hctx)
     ELSE [T EXCEPT !.pc = Pc("check", 0, "none")]

(* --------------------------- performTransition ------------------------- *)
\* tr0 and slot0 are the Transition objects and router.activeTransition as
\* performTransition finds them (retry has already aborted its receiver).
\* A variant of thrown in which the active transition was aborted before
\* the error was thrown.
thrownAfterAbort(op, tr0, slot0, name, models, queryParams) ==
  /\ trans' = IF slot0 # 0 THEN abortTrans(tr0, slot0) ELSE tr0
  /\ activeTransition' = 0
  /\ currentSequence' = currentSequence
  /\ lastCall' = Call(op, 0, slot0, TRUE, name, models, queryParams)

\* An error thrown by handlersFor or getMatchPoint leaves the call before
\* anything of the router was assigned.
thrown(op, tr0, slot0, name, models, queryParams) ==
  /\ trans' = tr0
  /\ activeTransition' = slot0
  /\ currentSequence' = currentSequence
  /\ lastCall' = Call(op, 0, slot0, TRUE, name, models, queryParams)

\* A variant of performTransition that fires willTransition for every new
\* Transition.
performTransitionAlwaysFires(op, limit, tr0, slot0, recogHandlers, providedModelsArray, params, queryParams, data, method) ==
  LET hasActive == slot0 # 0
      matchPointResults ==
        getMatchPoint(currentHandlerInfos, currentParams, hasActive,
                      IF hasActive THEN tr0[slot0].resolvedModels ELSE EmptyObj,
                      IF hasActive THEN tr0[slot0].providedModels ELSE EmptyObj,
                      recogHandlers, providedModelsArray, params)
      targetName == recogHandlers[Len(recogHandlers)].handler
      id == currentSequence + 1
      base == NewTransition("pending", Undef)
      transition ==
        [base EXCEPT !.targetName = targetName,
                     !.providedModels = matchPointResults.providedModels,
                     !.providedModelsArray = providedModelsArray,
                     !.params = matchPointResults.params,
                     !.data = IF data = 0 THEN id ELSE data,
                     !.queryParams = queryParams,
                     !.pivotHandler = matchPointResults.pivotHandler,
                     !.handlerInfos = generateHandlerInfos(recogHandlers),
                     !.willTransition = TRUE,
                     !.matchPoint = matchPointResults.matchPoint,
                     !.handlerParams = matchPointResults.handlerParams]
      tr1 == IF hasActive THEN abortTrans(tr0, slot0) ELSE tr0
  IN IF matchPointResults.threw
     THEN thrown(op, tr0, slot0, targetName, providedModelsArray, queryParams)
     ELSE IF hasActive /\ transitionsIdentical(tr0[slot0], targetName, providedModelsArray, queryParams)
     THEN /\ trans' = applyMethod(tr0, slot0, method)
          /\ activeTransition' = slot0
          /\ currentSequence' = currentSequence
          /\ lastCall' = Call(op, slot0, slot0, FALSE, targetName, providedModelsArray, queryParams)
     ELSE /\ currentSequence < limit
          /\ trans' = applyMethod(Append(tr1, validateEntry(transition, handlerContext)), id, method)
          /\ activeTransition' = id
          /\ currentSequence' = id
          /\ lastCall' = Call(op, id, slot0, FALSE, targetName, providedModelsArray, queryParams)

performTransition(op, limit, tr0, slot0, recogHandlers, providedModelsArray, params, queryParams, data, method) ==
  LET hasActive == slot0 # 0
      matchPointResults ==
        getMatchPoint(currentHandlerInfos, currentParams, hasActive,
                      IF hasActive THEN tr0[slot0].resolvedModels ELSE EmptyObj,
                      IF hasActive THEN tr0[slot0].providedModels ELSE EmptyObj,
                      recogHandlers, providedModelsArray, params)
      targetName == recogHandlers[Len(recogHandlers)].handler
      id == currentSequence + 1
      base == NewTransition("pending", Undef)
      transition ==
        [base EXCEPT !.targetName = targetName,
                     !.providedModels = matchPointResults.providedModels,
                     !.providedModelsArray = providedModelsArray,
                     !.params = matchPointResults.params,
                     !.data = IF data = 0 THEN id ELSE data,
                     !.queryParams = queryParams,
                     !.pivotHandler = matchPointResults.pivotHandler,
                     !.handlerInfos = generateHandlerInfos(recogHandlers),
                     !.willTransition = ~hasActive,
                     !.matchPoint = matchPointResults.matchPoint,
                     !.handlerParams = matchPointResults.handlerParams]
      tr1 == IF hasActive THEN abortTrans(tr0, slot0) ELSE tr0
  IN IF matchPointResults.threw
     THEN thrown(op, tr0, slot0, targetName, providedModelsArray, queryParams)
     ELSE IF hasActive /\ transitionsIdentical(tr0[slot0], targetName, providedModelsArray, queryParams)
     THEN /\ trans' = applyMethod(tr0, slot0, method)
          /\ activeTransition' = slot0
          /\ currentSequence' = currentSequence
          /\ lastCall' = Call(op, slot0, slot0, FALSE, targetName, providedModelsArray, queryParams)
     ELSE /\ currentSequence < limit
          /\ trans' = applyMethod(Append(tr1, validateEntry(transition, handlerContext)), id, method)
          /\ activeTransition' = id
          /\ currentSequence' = id
          /\ lastCall' = Call(op, id, slot0, FALSE, targetName, providedModelsArray, queryParams)

createNamedTransition(op, limit, r, method) ==
  IF r.name \notin RouteNames
  THEN \* handlersFor throws: "There is no route named ..."
       thrown(op, trans, activeTransition, r.name, r.models, r.queryParams)
  ELSE
  performTransition(op, limit, trans, activeTransition,
                    generateHandlerInfosWithQueryParams(currentQueryParams, handlersFor(r.name),
                                                        r.queryParams),
                    r.models, currentParams, r.queryParams, 0, method)

RECURSIVE mergeQueryParams(_, _, _)
mergeQueryParams(results, i, queryParams) ==
  IF i > Len(results) THEN queryParams
  ELSE mergeQueryParams(results, i + 1, merge(queryParams, results[i].queryParams))

\* errorTransition: a Transition whose promise is already rejected.
\* A variant of errorTransition that makes the rejected Transition the
\* active one.
errorTransitionActive(op, limit, reason, method) ==
  LET id == currentSequence + 1
      T == [NewTransition("rejected", reason) EXCEPT !.data = id]
  IN /\ currentSequence < limit
     /\ trans' = applyMethod(Append(trans, T), id, method)
     /\ currentSequence' = id
     /\ activeTransition' = id
     /\ lastCall' = Call(op, id, activeTransition, FALSE, "null", << >>, EmptyObj)

errorTransition(op, limit, reason, method) ==
  LET id == currentSequence + 1
      T == [NewTransition("rejected", reason) EXCEPT !.data = id]
  IN /\ currentSequence < limit
     /\ trans' = applyMethod(Append(trans, T), id, method)
     /\ currentSequence' = id
     /\ activeTransition' = activeTransition
     /\ lastCall' = Call(op, id, activeTransition, FALSE, "null", << >>, EmptyObj)

createURLTransition(op, limit, url, method) ==
  LET recognized == recognize(url)
      \* "Make sure this route is actually accessible by URL."
      results == IF \E i \in 1..Len(recognized) : InaccessibleByURL(recognized[i].handler)
                 THEN << >> ELSE recognized
  IN IF results = << >>
     THEN errorTransition(op, limit, "UnrecognizedURLError", method)
     ELSE performTransition(op, limit, trans, activeTransition, results, << >>, EmptyObj,
                            mergeQueryParams(results, 1, EmptyObj), 0, method)

(* ---------------------------- the public API --------------------------- *)
\* Calls come from the host between promise callbacks, or from inside an
\* exit, enter, setup or didTransition hook while a finalization is on the stack.
transitionTo(r, limit) ==
  /\ UNCHANGED << pure, recognizer >>
  /\ createNamedTransition([op |-> "transitionTo", on |-> 0], limit, r, "keep")
  /\ UNCHANGED << routerVars, running >>

replaceWith(r, limit) ==
  /\ UNCHANGED << pure, recognizer >>
  /\ createNamedTransition([op |-> "replaceWith", on |-> 0], limit, r, "replace")
  /\ UNCHANGED << routerVars, running >>

handleURL(url, limit) ==
  /\ UNCHANGED << pure, recognizer >>
  /\ createURLTransition([op |-> "handleURL", on |-> 0], limit, url, "null")
  /\ UNCHANGED << routerVars, running >>

abort(t) ==
  /\ UNCHANGED << pure, recognizer >>
  /\ trans' = abortTrans(trans, t)
  /\ activeTransition' = abortSlot(trans, t, activeTransition)
  /\ lastCall' = NoCall
  /\ UNCHANGED << currentSequence, routerVars, running >>

retry(t, limit) ==
  /\ UNCHANGED << pure, recognizer >>
  /\ IF trans[t].targetName = "null"
     THEN \* handlersFor throws: there is no route named null
          /\ trans' = abortTrans(trans, t)
          /\ activeTransition' = abortSlot(trans, t, activeTransition)
          /\ currentSequence' = currentSequence
          /\ lastCall' = Call([op |-> "retry", on |-> t], 0, abortSlot(trans, t, activeTransition),
                               TRUE, "null", trans[t].providedModelsArray, trans[t].queryParams)
     ELSE performTransition([op |-> "retry", on |-> t], limit, abortTrans(trans, t), abortSlot(trans, t, activeTransition),
                       generateHandlerInfosWithQueryParams(currentQueryParams,
                                                           handlersFor(trans[t].targetName),
                                                           trans[t].queryParams),
                       trans[t].providedModelsArray, trans[t].params, trans[t].queryParams,
                       trans[t].data, "keep")
  /\ UNCHANGED << routerVars, running >>

(* ---------------------------- partitionHandlers ------------------------ *)
RECURSIVE partitionLoop(_, _, _, _)
partitionLoop(acc, i, oldHandlers, newHandlers) ==
  IF i > Len(newHandlers) THEN acc
  ELSE LET hasOld == i <= Len(oldHandlers)
           newHandler == newHandlers[i]
           handlerChanged == acc.handlerChanged \/ ~hasOld \/ oldHandlers[i].name # newHandler.name
           queryParamsChanged ==
             \/ acc.queryParamsChanged
             \/ /\ hasOld
                /\ oldHandlers[i].name = newHandler.name
                /\ ~queryParamsEqual(oldHandlers[i].queryParams, newHandler.queryParams)
           flags == [acc EXCEPT !.handlerChanged = handlerChanged,
                                !.queryParamsChanged = queryParamsChanged]
       IN IF handlerChanged
          THEN partitionLoop([flags EXCEPT !.entered = Append(acc.entered, newHandler),
                                           !.exited = IF hasOld THEN << oldHandlers[i] >> \o acc.exited
                                                      ELSE acc.exited],
                             i + 1, oldHandlers, newHandlers)
          ELSE IF acc.contextChanged \/ oldHandlers[i].context # newHandler.context \/ queryParamsChanged
          THEN partitionLoop([flags EXCEPT !.contextChanged = TRUE,
                                           !.updatedContext = Append(acc.updatedContext, newHandler)],
                             i + 1, oldHandlers, newHandlers)
          ELSE partitionLoop([flags EXCEPT !.unchanged = Append(acc.unchanged, oldHandlers[i])],
                             i + 1, oldHandlers, newHandlers)

RECURSIVE exitRestPushed(_, _, _)
\* A variant of exitRest that pushes where exitRest unshifts.
exitRestPushed(exited, i, oldHandlers) ==
  IF i > Len(oldHandlers) THEN exited
  ELSE exitRestPushed(exited \o << oldHandlers[i] >>, i + 1, oldHandlers)

RECURSIVE exitRest(_, _, _)
\* The second loop: old handlers deeper than the new chain are exited.
exitRest(exited, i, oldHandlers) ==
  IF i > Len(oldHandlers) THEN exited
  ELSE exitRest(<< oldHandlers[i] >> \o exited, i + 1, oldHandlers)

\* A variant of partitionHandlers without its second loop.
partitionHandlersOneLoop(oldHandlers, newHandlers) ==
  LET acc == partitionLoop([updatedContext |-> << >>, exited |-> << >>, entered |-> << >>,
                            unchanged |-> << >>, handlerChanged |-> FALSE,
                            contextChanged |-> FALSE, queryParamsChanged |-> FALSE],
                           1, oldHandlers, newHandlers)
  IN [updatedContext |-> acc.updatedContext,
      exited         |-> acc.exited,
      entered        |-> acc.entered,
      unchanged      |-> acc.unchanged]

partitionHandlers(oldHandlers, newHandlers) ==
  LET acc == partitionLoop([updatedContext |-> << >>, exited |-> << >>, entered |-> << >>,
                            unchanged |-> << >>, handlerChanged |-> FALSE,
                            contextChanged |-> FALSE, queryParamsChanged |-> FALSE],
                           1, oldHandlers, newHandlers)
  IN [updatedContext |-> acc.updatedContext,
      exited         |-> exitRest(acc.exited, Len(newHandlers) + 1, oldHandlers),
      entered        |-> acc.entered,
      unchanged      |-> acc.unchanged]

(* ---------------------------- finalizeTransition ----------------------- *)
RECURSIVE collectObjects(_, _, _, _)
\* "Collect params for URL": one object per dynamic handler, leaf first.
collectObjects(handlerInfos, i, providedModels, objects) ==
  IF i < 1 THEN objects
  ELSE IF handlerInfos[i].isDynamic
  THEN LET providedModel == IF Len(providedModels) > 0 THEN providedModels[Len(providedModels)]
                            ELSE Undef
           rest == IF Len(providedModels) > 0
                   THEN SubSeq(providedModels, 1, Len(providedModels) - 1) ELSE << >>
       IN collectObjects(handlerInfos, i - 1, rest,
                         << IF isParam(providedModel) THEN providedModel
                            ELSE handlerInfos[i].context >> \o objects)
  ELSE collectObjects(handlerInfos, i - 1, providedModels, objects)

RECURSIVE collectQueryParams(_, _, _)
collectQueryParams(handlerInfos, i, newQueryParams) ==
  IF i < 1 THEN newQueryParams
  ELSE collectQueryParams(handlerInfos, i - 1, merge(newQueryParams, handlerInfos[i].queryParams))

\* serialize with no custom handler.serialize: the one dynamic segment name
\* (none here ends in _id) maps to the model itself.
serialize(model, names) ==
  IF isParam(model) \/ Len(names) = 1 THEN [k \in {names[1]} |-> model] ELSE EmptyObj

RECURSIVE paramsLoop(_, _, _, _, _, _)
paramsLoop(handlers, i, matchPoint, objects, params, hctx) ==
  IF i > Len(handlers) THEN params
  ELSE LET handlerObj == handlers[i]
       IN IF Len(handlerObj.names) > 0
          THEN IF i - 1 >= matchPoint
               THEN paramsLoop(handlers, i + 1, matchPoint,
                               IF Len(objects) > 0 THEN Tail(objects) ELSE objects,
                               merge(params, serialize(IF Len(objects) > 0 THEN Head(objects)
                                                       ELSE Undef, handlerObj.names)),
                               hctx)
               ELSE paramsLoop(handlers, i + 1, matchPoint, objects,
                               merge(params, serialize(hctx[handlerObj.handler], handlerObj.names)),
                               hctx)
          ELSE paramsLoop(handlers, i + 1, matchPoint, objects, params, hctx)

\* paramsForHandler, less the queryParams entry of the hash it returns (no
\* dynamic segment is named queryParams, so nothing reads that entry of
\* router.currentParams).
paramsForHandler(curInfos, oldParams, curQP, hasActive, actResolved, actProvided, hctx, handlerName, objects, queryParams) ==
  LET handlers == handlersFor(handlerName)
      handlerInfos == generateHandlerInfosWithQueryParams(curQP, handlers, queryParams)
      matchPoint == getMatchPoint(curInfos, oldParams, hasActive, actResolved, actProvided,
                                  handlerInfos, objects, EmptyObj).matchPoint
  IN paramsLoop(handlers, 1, matchPoint, objects, EmptyObj, hctx)

RECURSIVE deleteContexts(_, _, _)
\* The exited handlers lose their context (and their exit hook is called).
deleteContexts(hctx, exited, i) ==
  IF i > Len(exited) THEN hctx
  ELSE deleteContexts([hctx EXCEPT ![exited[i].name] = Undef], exited, i + 1)

HookCall(hook, name) == [hook |-> hook, name |-> name]

\* `enter && handler.enter`
callsEnter(item) == item.enter /\ "enter" \in HandlerHooks(item.info.name)

\* handlerEnteredOrUpdated up to its next hook: the enter hook of an entered
\* handler, else (after setContext) the setup hook; past the last handler,
\* the didTransition event.
beginItem(T, idx) ==
  IF idx > Len(T.todo) THEN [T EXCEPT !.pc = Pc("didTransition", 0, "none")]
  ELSE IF callsEnter(T.todo[idx])
  THEN [T EXCEPT !.pc = Pc("enter", idx, "none"),
                 !.lifecycle = Append(@, HookCall("enter", T.todo[idx].info.name))]
  ELSE [T EXCEPT !.pc = Pc("setup", idx, "none"),
                 !.lifecycle = Append(@, HookCall("setup", T.todo[idx].info.name))]

beginContext(T, idx, hctx) ==
  IF idx <= Len(T.todo) /\ ~callsEnter(T.todo[idx])
  THEN [hctx EXCEPT ![T.todo[idx].info.name] = T.todo[idx].info.context]
  ELSE hctx

(* ----------------- the promise chain of validateEntry ------------------ *)
\* Promise callbacks run one at a time, never while a finalization is on
\* the stack.
Callback(t) == t \in Transitions /\ running = 0

HandlerAt(T) == T.handlerInfos[T.resolveIndex + 1]

HookEvent(T, what) == [index |-> T.resolveIndex, hook |-> T.pc.k, what |-> what]

\* When the chain of a Transition has ended, its closures are unreachable.
ended(T) ==
  [T EXCEPT !.pc = Pc("done", 0, "none"), !.context = Undef, !.todo = << >>,
            !.exited = << >>, !.unchanged = << >>, !.handlerParams = EmptyObj,
            !.lifecycle = << >>]

\* proceed(): the handler's context is committed and validateEntry goes on
\* with the next handler.
proceed(T, hctx) ==
  LET name == HandlerAt(T).name
  IN validateEntry([T EXCEPT !.handlerInfos[T.resolveIndex + 1].context =
                                Get(T.resolvedModels, name),
                             !.resolveIndex = T.resolveIndex + 1], hctx)

\* Whether closure k (0 beforeModel, 1 model, 2 afterModel) of the current
\* handler calls a host hook; getModel uses a provided model in place of
\* the model hook.
callsHook(T, k) ==
  LET name == HandlerAt(T).name
  IN CASE k = 0 -> "beforeModel" \in HandlerHooks(name)
       [] k = 1 -> name \notin DOMAIN T.providedModels /\ "model" \in HandlerHooks(name)
       [] OTHER -> "afterModel" \in HandlerHooks(name)

\* What closure k does itself: model() yields the context when no hook is
\* called for it, afterModel() records the context as the resolved model.
closure(T, k) ==
  LET name == HandlerAt(T).name
  IN CASE k = 1 /\ ~callsHook(T, 1) ->
            [T EXCEPT !.context = Get(T.providedModels, name)]
       [] k = 2 -> [T EXCEPT !.resolvedModels = Put(T.resolvedModels, name, T.context)]
       [] OTHER -> T

RECURSIVE passAbortChecks(_, _, _)
\* From a handleAbort that found no abort: closures that call no host hook
\* run through (with the handleAbort after each) up to the next closure that
\* calls one, or through proceed when the handler has none left.
passAbortChecks(T, k, hctx) ==
  IF k = 3 THEN proceed(T, hctx)
  ELSE IF callsHook(T, k) THEN [T EXCEPT !.pc = Pc("call", k, "none")]
  ELSE passAbortChecks(closure(T, k), k + 1, hctx)

\* handleError: an abort passes through; any other reason aborts the
\* Transition and fires the error event before it is passed on.
errorHandled(T, reason) ==
  IF reason = TransitionAborted \/ T.isAborted
  THEN [T EXCEPT !.pc = Pc("failure", 0, reason)]
  ELSE [triggerError([T EXCEPT !.isAborted = TRUE, !.isActive = FALSE], reason)
          EXCEPT !.pc = Pc("failure", 0, reason)]

\* handleAbort.  On an aborted Transition it rejects with TransitionAborted,
\* which handleError passes on to transitionFailure: deferred.reject.
handleAbort(t) ==
  /\ UNCHANGED << pure, recognizer >>
  /\ Callback(t)
  /\ trans[t].pc.at = "check"
  /\ LET T == trans[t]
     IN trans' = [trans EXCEPT ![t] =
          IF T.isAborted
          THEN ended([errorHandled(T, TransitionAborted)
                        EXCEPT !.promise = "rejected", !.value = TransitionAborted])
          ELSE passAbortChecks(T, T.pc.k, handlerContext)]
  /\ lastCall' = NoCall
  /\ UNCHANGED << currentSequence, activeTransition, routerVars, running >>

\* The closure beforeModel, model or afterModel calls its host hook, and the
\* chain waits for what the hook returned.
invokeHook(t) ==
  /\ UNCHANGED << pure, recognizer >>
  /\ Callback(t)
  /\ trans[t].pc.at = "call"
  /\ LET T == closure(trans[t], trans[t].pc.k)
     IN trans' = [trans EXCEPT ![t] =
                    [T EXCEPT !.pc = Pc("hook", T.pc.k, "none"),
                              !.lastHook = HookEvent(T, "start"),
                              !.hooked = T.hooked \cup {T.resolveIndex}]]
  /\ lastCall' = NoCall
  /\ UNCHANGED << currentSequence, activeTransition, routerVars, running >>

\* A chain that runs the same closure again after its hook has fulfilled.
hookFulfilledAgain(T, value) ==
  [T EXCEPT !.pc = Pc("check", T.pc.k, "none"),
            !.context = IF T.pc.k = 1 THEN value ELSE T.context,
            !.lastHook = HookEvent(T, "settle")]

\* What a host hook returned is fulfilled (a model hook's value becomes the
\* context) ...
hookFulfilled(T, value) ==
  [T EXCEPT !.pc = Pc("check", T.pc.k + 1, "none"),
            !.context = IF T.pc.k = 1 THEN value ELSE T.context,
            !.lastHook = HookEvent(T, "settle")]

\* ... or the hook threw, or what it returned is rejected.
hookRejected(T, reason) ==
  [T EXCEPT !.pc = Pc("rejected", 0, reason),
            !.lastHook = HookEvent(T, "settle")]

hookFulfils(t) ==
  /\ UNCHANGED << pure, recognizer >>
  /\ Callback(t)
  /\ trans[t].pc.at = "hook"
  /\ \E value \in (IF trans[t].pc.k = 1 THEN HookModels ELSE {Undef}) :
       trans' = [trans EXCEPT ![t] = hookFulfilled(trans[t], value)]
  /\ lastCall' = NoCall
  /\ UNCHANGED << currentSequence, activeTransition, routerVars, running >>

hookRejects(t) ==
  /\ UNCHANGED << pure, recognizer >>
  /\ Callback(t)
  /\ trans[t].pc.at = "hook"
  /\ \E reason \in HookErrors : trans' = [trans EXCEPT ![t] = hookRejected(trans[t], reason)]
  /\ lastCall' = NoCall
  /\ UNCHANGED << currentSequence, activeTransition, routerVars, running >>

handleError(t) ==
  /\ UNCHANGED << pure, recognizer >>
  /\ Callback(t)
  /\ trans[t].pc.at = "rejected"
  /\ trans' = [trans EXCEPT ![t] = errorHandled(trans[t], trans[t].pc.reason)]
  /\ activeTransition' = IF trans[t].pc.reason = TransitionAborted
                         THEN activeTransition
                         ELSE abortSlot(trans, t, activeTransition)
  /\ lastCall' = NoCall
  /\ UNCHANGED << currentSequence, routerVars, running >>

\* transitionFailure: deferred.reject(reason).
transitionFailure(t) ==
  /\ UNCHANGED << pure, recognizer >>
  /\ Callback(t)
  /\ trans[t].pc.at = "failure"
  /\ trans' = [trans EXCEPT ![t] = ended([trans[t] EXCEPT !.promise = "rejected",
                                                          !.value = trans[t].pc.reason])]
  /\ lastCall' = NoCall
  /\ UNCHANGED << currentSequence, activeTransition, routerVars, running >>

(* ------------------- transitionSuccess and finalization ---------------- *)
\* setupContexts without its pass over partition.updatedContext.
TodoOfEntered(partition) ==
  [i \in 1..Len(partition.entered) |-> [info |-> partition.entered[i], enter |-> TRUE]]

\* A variant of setupContexts that takes the handlers to enter leaf first.
TodoOfLeafFirst(partition) ==
  [i \in 1..Len(partition.updatedContext) |-> [info |-> partition.updatedContext[i], enter |-> FALSE]]
  \o [i \in 1..Len(partition.entered) |->
        [info |-> partition.entered[Len(partition.entered) + 1 - i], enter |-> TRUE]]

TodoOf(partition) ==
  [i \in 1..Len(partition.updatedContext) |-> [info |-> partition.updatedContext[i], enter |-> FALSE]]
  \o [i \in 1..Len(partition.entered) |-> [info |-> partition.entered[i], enter |-> TRUE]]

\* transitionSuccess up to the first enter or setup hook: checkAbort, then
\* finalizeTransition (params, URL, setupContexts with the exits).  A throw
\* of checkAbort leaves the callback; deferred is not touched.
\* deferred.reject(reason) from the catch of transitionSuccess.
finRejected(T, reason) ==
  ended([T EXCEPT !.promise = "rejected", !.value = reason])

\* setupContexts from the exited handler k up to its next hook.  Each exited
\* handler loses its context and, where it defines one, has its exit hook
\* called; no checkAbort follows an exit.  Past the last exited handler
\* router.currentHandlerInfos becomes partition.unchanged and
\* handlerEnteredOrUpdated takes the first handler: its enter hook when it
\* has one to call, else checkAbort (whose throw, a TransitionAborted, is
\* passed on to the catch of transitionSuccess) and setContext.
setupContexts(T, k, infos, hctx) ==
  LET exited == T.exited
      hooks == {i \in k..Len(exited) : "exit" \in HandlerHooks(exited[i].name)}
  IN IF hooks # {}
     THEN LET n == CHOOSE i \in hooks : \A j \in hooks : i <= j
          IN [T |-> [T EXCEPT !.pc = Pc("exit", n, "none"),
                              !.lifecycle = Append(@, HookCall("exit", exited[n].name))],
              infos |-> infos,
              hctx |-> deleteContexts(hctx, SubSeq(exited, 1, n), k)]
     ELSE IF T.todo # << >> /\ ~callsEnter(T.todo[1]) /\ T.isAborted
     THEN [T |-> finRejected(T, TransitionAborted), infos |-> T.unchanged,
           hctx |-> deleteContexts(hctx, exited, k)]
     ELSE [T |-> beginItem(T, 1), infos |-> T.unchanged,
           hctx |-> beginContext(T, 1, deleteContexts(hctx, exited, k))]

transitionSuccess(t) ==
  /\ UNCHANGED << pure, recognizer >>
  /\ Callback(t)
  /\ trans[t].pc.at = "success"
  /\ LET T == trans[t]
         handlerInfos == T.handlerInfos
         handlerName == handlerInfos[Len(handlerInfos)].name
         objects == collectObjects(handlerInfos, Len(handlerInfos), T.providedModelsArray, << >>)
         newQueryParams == collectQueryParams(handlerInfos, Len(handlerInfos), EmptyObj)
         hasActive == activeTransition # 0
         params == paramsForHandler(currentHandlerInfos, currentParams, newQueryParams, hasActive,
                                    IF hasActive THEN trans[activeTransition].resolvedModels ELSE EmptyObj,
                                    IF hasActive THEN trans[activeTransition].providedModels ELSE EmptyObj,
                                    handlerContext, handlerName, objects, T.queryParams)
         partition == partitionHandlers(currentHandlerInfos, handlerInfos)
         urlMethod == IF \E i \in 1..Len(handlerInfos) : InaccessibleByURL(handlerInfos[i].name)
                      THEN "null" ELSE T.urlMethod
         T1 == [T EXCEPT !.todo = TodoOf(partition),
                         !.exited = partition.exited, !.unchanged = partition.unchanged,
                         !.urlCalls = IF urlMethod = "null" THEN T.urlCalls
                                      ELSE Append(T.urlCalls, urlMethod)]
         setup == setupContexts(T1, 1, currentHandlerInfos, handlerContext)
     IN IF T.isAborted
        THEN /\ trans' = [trans EXCEPT ![t] = ended(T)]
             /\ UNCHANGED << routerVars, running >>
        ELSE /\ trans' = [trans EXCEPT ![t] = setup.T]
             /\ currentQueryParams' = newQueryParams
             /\ currentParams' = params
             /\ targetHandlerInfos' = handlerInfos
             /\ currentHandlerInfos' = setup.infos
             /\ handlerContext' = setup.hctx
             /\ running' = t
  /\ lastCall' = NoCall
  /\ UNCHANGED << currentSequence, activeTransition >>

\* The end of transitionSuccess: the slot is cleared unless the Transition
\* was aborted.
closeSlot(T, slot) == IF T.isAborted THEN slot ELSE 0

\* The catch of handlerEnteredOrUpdated without its test of the error.
enteredOrUpdatedCatchAll(T, e) == triggerError(T, e)

\* The catch of handlerEnteredOrUpdated: an error that is no
\* TransitionAborted fires the error event from the failed handler.
enteredOrUpdatedCatch(T, e) ==
  IF e = TransitionAborted THEN T ELSE triggerError(T, e)

\* deferred.resolve(the last handler), after isActive = false.
finResolved(T) ==
  ended([T EXCEPT !.isActive = FALSE, !.promise = "fulfilled",
                  !.value = T.handlerInfos[Len(T.handlerInfos)].name])

\* The hook that is running (exit, enter, setup, or the didTransition event
\* with router.didTransition) returns, and the finalization runs on to its
\* next hook or to its end; checkAbort follows every enter and setup.
hookReturns(t) ==
  /\ UNCHANGED << pure, recognizer >>
  /\ t \in Transitions /\ running = t
  /\ LET T == trans[t]
         idx == T.pc.k
     IN IF T.pc.at = "didTransition"
        THEN /\ trans' = [trans EXCEPT ![t] = finResolved(T)]
             /\ activeTransition' = closeSlot(T, activeTransition)
             /\ running' = 0
             /\ UNCHANGED routerVars
        ELSE IF T.pc.at = "exit"
        THEN LET setup == setupContexts(T, idx + 1, currentHandlerInfos, handlerContext)
             IN /\ trans' = [trans EXCEPT ![t] = setup.T]
                /\ currentHandlerInfos' = setup.infos
                /\ handlerContext' = setup.hctx
                /\ running' = IF setup.T.pc.at = "done" THEN 0 ELSE t
                /\ UNCHANGED << activeTransition, targetHandlerInfos, currentParams,
                                currentQueryParams >>
        ELSE IF T.isAborted
        THEN /\ trans' = [trans EXCEPT ![t] =
                            finRejected(enteredOrUpdatedCatch(T, TransitionAborted), TransitionAborted)]
             /\ activeTransition' = closeSlot(T, activeTransition)
             /\ running' = 0
             /\ UNCHANGED routerVars
        ELSE IF T.pc.at = "enter"
        THEN /\ trans' = [trans EXCEPT ![t].pc = Pc("setup", idx, "none"),
                                        ![t].lifecycle =
                                          Append(@, HookCall("setup", T.todo[idx].info.name))]
             /\ handlerContext' = [handlerContext EXCEPT ![T.todo[idx].info.name] =
                                                           T.todo[idx].info.context]
             /\ UNCHANGED << activeTransition, running, currentHandlerInfos, targetHandlerInfos,
                             currentParams, currentQueryParams >>
        ELSE /\ T.pc.at = "setup"
             /\ trans' = [trans EXCEPT ![t] = beginItem(T, idx + 1)]
             /\ currentHandlerInfos' = Append(currentHandlerInfos, T.todo[idx].info)
             /\ handlerContext' = beginContext(T, idx + 1, handlerContext)
             /\ UNCHANGED << activeTransition, running, targetHandlerInfos, currentParams,
                             currentQueryParams >>
  /\ lastCall' = NoCall
  /\ UNCHANGED currentSequence

\* The hook that is running throws: an enter or setup error fires the error
\* event (an exit is called outside handlerEnteredOrUpdated, so its error
\* fires none), and every throw rejects the promise.
hookThrows(t) ==
  /\ UNCHANGED << pure, recognizer >>
  /\ t \in Transitions /\ running = t
  /\ \E reason \in HookErrors :
       LET T == trans[t]
           T1 == IF T.pc.at \in {"didTransition", "exit"} THEN T ELSE enteredOrUpdatedCatch(T, reason)
       IN /\ trans' = [trans EXCEPT ![t] = finRejected(T1, reason)]
          /\ activeTransition' = closeSlot(T, activeTransition)
  /\ running' = 0
  /\ lastCall' = NoCall
  /\ UNCHANGED << currentSequence, routerVars >>

(* ------------------- reset and intermediateTransitionTo ---------------- *)
\* Both run to their end inside the call.  They are called between promise
\* callbacks, and the hooks they call return without calling the router;
\* lastCall.hooks lists these hook calls in the order they are made.
RECURSIVE eachExit(_, _)
\* eachHandler(handlerInfos, ...) calling handler.exit where it is defined.
eachExit(handlerInfos, i) ==
  IF i > Len(handlerInfos) THEN << >>
  ELSE IF "exit" \in HandlerHooks(handlerInfos[i].name)
  THEN << HookCall("exit", handlerInfos[i].name) >> \o eachExit(handlerInfos, i + 1)
  ELSE eachExit(handlerInfos, i + 1)

reset ==
  /\ UNCHANGED << pure, recognizer >>
  /\ running = 0
  /\ lastCall' = [Call([op |-> "reset", on |-> 0], 0, activeTransition, FALSE, "null", << >>,
                        EmptyObj)
                    EXCEPT !.hooks = eachExit(currentHandlerInfos, 1)]
  /\ currentHandlerInfos' = << >>
  /\ targetHandlerInfos' = << >>
  /\ UNCHANGED << currentSequence, trans, activeTransition, currentParams, currentQueryParams,
                  handlerContext, running >>

RECURSIVE eachEnteredOrUpdatedUnpushed(_, _, _)
\* A variant of handlerEnteredOrUpdated without its push onto
\* currentHandlerInfos.
eachEnteredOrUpdatedUnpushed(todo, i, acc) ==
  IF i > Len(todo) THEN acc
  ELSE LET info == todo[i].info
       IN eachEnteredOrUpdatedUnpushed(todo, i + 1,
            [hctx  |-> [acc.hctx EXCEPT ![info.name] = info.context],
             infos |-> acc.infos,
             hooks |-> acc.hooks
                       \o (IF callsEnter(todo[i]) THEN << HookCall("enter", info.name) >>
                           ELSE << >>)
                       \o << HookCall("setup", info.name) >>])

RECURSIVE eachEnteredOrUpdated(_, _, _)
\* handlerEnteredOrUpdated for each handler of todo from i on, with a
\* transition that is never aborted and hooks that return: enter (an entered
\* handler that defines it), setContext, setup, and the push onto
\* currentHandlerInfos.
eachEnteredOrUpdated(todo, i, acc) ==
  IF i > Len(todo) THEN acc
  ELSE LET info == todo[i].info
       IN eachEnteredOrUpdated(todo, i + 1,
            [hctx  |-> [acc.hctx EXCEPT ![info.name] = info.context],
             infos |-> Append(acc.infos, info),
             hooks |-> acc.hooks
                       \o (IF callsEnter(todo[i]) THEN << HookCall("enter", info.name) >>
                           ELSE << >>)
                       \o << HookCall("setup", info.name) >>])

\* performIntermediateTransition: the handlerInfos get the provided models
\* as contexts, and setupContexts runs with a stub for the transition.
performIntermediateTransition(recogHandlers, matchPointResults) ==
  LET generated == generateHandlerInfos(recogHandlers)
      handlerInfos == [i \in 1..Len(generated) |->
                         [generated[i] EXCEPT !.context =
                            Get(matchPointResults.providedModels, generated[i].name)]]
      partition == partitionHandlers(currentHandlerInfos, handlerInfos)
      setup == eachEnteredOrUpdated(TodoOf(partition), 1,
                 [hctx  |-> deleteContexts(handlerContext, partition.exited, 1),
                  infos |-> partition.unchanged,
                  hooks |-> eachExit(partition.exited, 1)])
  IN [targetHandlerInfos |-> handlerInfos, currentHandlerInfos |-> setup.infos,
      handlerContext |-> setup.hctx, hooks |-> setup.hooks]

\* intermediateTransitionTo(name, models...): doTransition with
\* isIntermediate, which leaves performTransition after getMatchPoint.
intermediateTransitionTo(r) ==
  /\ UNCHANGED << pure, recognizer >>
  /\ running = 0
  /\ LET op == [op |-> "intermediateTransitionTo", on |-> 0]
         hasActive == activeTransition # 0
         recogHandlers == generateHandlerInfosWithQueryParams(currentQueryParams,
                                                              handlersFor(r.name), r.queryParams)
         matchPointResults ==
           getMatchPoint(currentHandlerInfos, currentParams, hasActive,
                         IF hasActive THEN trans[activeTransition].resolvedModels ELSE EmptyObj,
                         IF hasActive THEN trans[activeTransition].providedModels ELSE EmptyObj,
                         recogHandlers, r.models, currentParams)
         done == performIntermediateTransition(recogHandlers, matchPointResults)
     IN IF r.name \notin RouteNames \/ matchPointResults.threw
        THEN /\ thrown(op, trans, activeTransition, r.name, r.models, r.queryParams)
             /\ UNCHANGED routerVars
        ELSE /\ lastCall' = [Call(op, 0, activeTransition, FALSE, r.name, r.models, r.queryParams)
                               EXCEPT !.hooks = done.hooks]
             /\ currentHandlerInfos' = done.currentHandlerInfos
             /\ targetHandlerInfos' = done.targetHandlerInfos
             /\ handlerContext' = done.handlerContext
             /\ UNCHANGED << currentSequence, trans, activeTransition, currentParams,
                             currentQueryParams >>
  /\ UNCHANGED running

(* ------------------------------- trigger ------------------------------- *)
RECURSIVE triggerLoop(_, _, _, _)
\* The loop of trigger / triggerEvent from the handler at index i toward the
\* root: acc.seen lists the indices of the handlers whose function ran,
\* acc.returned tells that a function did not return true (the `return`
\* inside the loop).
triggerLoop(handlerInfos, i, name, acc) ==
  IF i < 1 THEN acc
  ELSE IF DefinesEvent(handlerInfos[i].name, name)
  THEN IF EventReturnsTrue(handlerInfos[i].name, name)
       THEN triggerLoop(handlerInfos, i - 1, name,
                        [acc EXCEPT !.seen = Append(@, i), !.eventWasHandled = TRUE])
       ELSE [acc EXCEPT !.seen = Append(@, i), !.returned = TRUE]
  ELSE triggerLoop(handlerInfos, i - 1, name, acc)

NoTrigger == [seen |-> << >>, eventWasHandled |-> FALSE, returned |-> FALSE]

\* What a call of trigger did: the handlers that ran, whether the call threw
\* ("no active handlers" / "Nothing handled"), whether Ember's default
\* action handler ran.
Triggered(seen, threw, defaultRan) == [seen |-> seen, threw |-> threw, defaultRan |-> defaultRan]

\* A variant of triggerEvent that forgets to record that a handler ran.
triggerEventUnrecorded(isNull, handlerInfos, ignoreFailure, name) ==
  IF isNull THEN Triggered(<< >>, ~ignoreFailure, FALSE)
  ELSE LET acc == triggerLoop(handlerInfos, Len(handlerInfos), name, NoTrigger)
       IN IF acc.returned THEN Triggered(acc.seen, FALSE, FALSE)
          ELSE IF name \in DefaultActionHandlers THEN Triggered(acc.seen, FALSE, TRUE)
          ELSE Triggered(acc.seen, ~ignoreFailure, FALSE)

\* Ember's triggerEvent(handlerInfos, ignoreFailure, args); isNull stands for
\* a handlerInfos that is null or undefined.
triggerEvent(isNull, handlerInfos, ignoreFailure, name) ==
  IF isNull THEN Triggered(<< >>, ~ignoreFailure, FALSE)
  ELSE LET acc == triggerLoop(handlerInfos, Len(handlerInfos), name, NoTrigger)
       IN IF acc.returned THEN Triggered(acc.seen, FALSE, FALSE)
          ELSE IF name \in DefaultActionHandlers THEN Triggered(acc.seen, FALSE, TRUE)
          ELSE Triggered(acc.seen, ~acc.eventWasHandled /\ ~ignoreFailure, FALSE)

\* trigger(router, handlerInfos, ignoreFailure, args): delegates to
\* router.triggerEvent when the host installed one.
trigger(hasTriggerEvent, isNull, handlerInfos, ignoreFailure, name) ==
  IF hasTriggerEvent THEN triggerEvent(isNull, handlerInfos, ignoreFailure, name)
  ELSE IF isNull THEN Triggered(<< >>, ~ignoreFailure, FALSE)
  ELSE LET acc == triggerLoop(handlerInfos, Len(handlerInfos), name, NoTrigger)
       IN IF acc.returned THEN Triggered(acc.seen, FALSE, FALSE)
          ELSE Triggered(acc.seen, ~acc.eventWasHandled /\ ~ignoreFailure, FALSE)

(* ------------------------------ the route DSL -------------------------- *)
\* Strings of the DSL are sequences of tokens, "." and "/" being tokens of
\* their own: concatenation is \o.
\* name.split('.').pop()
LastPart(name) ==
  LET dots == { i \in 1..Len(name) : name[i] = "." }
      start == IF dots = {} THEN 1 ELSE (CHOOSE i \in dots : \A j \in dots : j <= i) + 1
  IN SubSeq(name, start, Len(name))

\* options of resource / route: path (when it is a string) and queryParams.
Options(hasPath, path) == [hasPath |-> hasPath, path |-> path, queryParams |-> Undef]
NoOptions == Options(FALSE, << >>)

\* new DSL(name); an undefined or empty parent is << >>.
NewDSL(name) == [parent |-> name, matches |-> << >>, explicitIndex |-> FALSE]

\* What is pushed as callback: null, or the matches dsl.generate() registers.
NullCallback == [isNull |-> TRUE, matches |-> << >>]
Callback3(matches) == [isNull |-> FALSE, matches |-> matches]

\* DSL.prototype.push
push(dsl, url, name, callback, queryParams) ==
  [dsl EXCEPT !.explicitIndex = \/ dsl.explicitIndex
                                \/ url = << >> \/ url = << "/" >>
                                \/ LastPart(name) = << "index" >>,
              !.matches = Append(dsl.matches,
                                 [url |-> url, name |-> name, callback |-> callback,
                                  queryParams |-> queryParams])]

\* function route(dsl, name, options)
route(dsl, name, options) ==
  push(dsl,
       IF options.hasPath THEN options.path ELSE << "/" >> \o name,
       IF dsl.parent # << >> /\ dsl.parent # << "application" >>
       THEN dsl.parent \o << "." >> \o name ELSE name,
       NullCallback, options.queryParams)

ErrorPath(name) == << "/", "_unused_dummy_error_path_route_" >> \o name \o << "/", ":error" >>

\* The named-substate pair pushed after a route or resource when
\* ember-routing-named-substates is enabled.
substates(dsl, name, namedSubstates) ==
  IF namedSubstates
  THEN route(route(dsl, name \o << "_loading" >>, NoOptions),
             name \o << "_error" >>, Options(TRUE, ErrorPath(name)))
  ELSE dsl

\* DSL.prototype.route
DSLroute(dsl, name, options, namedSubstates) ==
  substates(route(dsl, name, options), name, namedSubstates)

\* DSL.prototype.generate: the matches that the returned function registers.
DSLgenerate(dsl, namedSubstates) ==
  IF ~dsl.explicitIndex
  THEN DSLroute(dsl, << "index" >>, Options(TRUE, << "/" >>), namedSubstates).matches
  ELSE dsl.matches

\* A declaration made in a callback: this.route(name, options) or
\* this.resource(name, options, callback), the callback being the
\* declarations of body.
Decl(kind, name, options, hasCallback, body) ==
  [kind |-> kind, name |-> name, options |-> options, hasCallback |-> hasCallback, body |-> body]

RECURSIVE resource(_, _, _)
RECURSIVE declare(_, _, _, _)
\* A variant of resource that pushes the name joined to the parent's.
resourceJoined(dsl, d, namedSubstates) ==
  LET path == IF d.options.hasPath THEN d.options.path ELSE << "/" >> \o d.name
      name == IF dsl.parent # << >> THEN dsl.parent \o << "." >> \o d.name ELSE d.name
      pushed ==
        IF d.hasCallback
        THEN LET dsl0 == route(route(NewDSL(name), << "loading" >>, NoOptions),
                               << "error" >>, Options(TRUE, ErrorPath(name)))
                 dsl1 == declare(dsl0, d.body, 1, namedSubstates)
             IN push(dsl, path, name, Callback3(DSLgenerate(dsl1, namedSubstates)),
                     d.options.queryParams)
        ELSE push(dsl, path, name, NullCallback, d.options.queryParams)
  IN substates(pushed, LastPart(d.name), namedSubstates)

\* DSL.prototype.resource
resource(dsl, d, namedSubstates) ==
  LET path == IF d.options.hasPath THEN d.options.path ELSE << "/" >> \o d.name
      pushed ==
        IF d.hasCallback
        THEN LET dsl0 == route(route(NewDSL(d.name), << "loading" >>, NoOptions),
                               << "error" >>, Options(TRUE, ErrorPath(d.name)))
                 dsl1 == declare(dsl0, d.body, 1, namedSubstates)
             IN push(dsl, path, d.name, Callback3(DSLgenerate(dsl1, namedSubstates)),
                     d.options.queryParams)
        ELSE push(dsl, path, d.name, NullCallback, d.options.queryParams)
  IN substates(pushed, LastPart(d.name), namedSubstates)

\* callback.declare(dsl): the declarations of the callback, in order.
declare(dsl, body, i, namedSubstates) ==
  IF i > Len(body) THEN dsl
  ELSE declare(IF body[i].kind = "resource"
            THEN resource(dsl, body[i], namedSubstates)
            ELSE DSLroute(dsl, body[i].name, body[i].options, namedSubstates),
            body, i + 1, namedSubstates)

\* DSL.map(callback)
DSLmap(body, namedSubstates) == declare(NewDSL(<< >>), body, 1, namedSubstates)

(* ------------------ the pure functions applied on their own ------------ *)
SeqsUpTo(S, n) == UNION { [1..k -> S] : k \in 0..n }

\* The entries of the chains handed to partitionHandlers: a handler name, a
\* context reference and query params. The old entries all hold the context
\* c1; a new entry holds the same reference or another one.
ChainEntry(h, context, queryParams) ==
  [name |-> h, context |-> context, queryParams |-> queryParams]

OldEntries ==
  { ChainEntry(h, "c1", qp) : h \in {"app", "post"}, qp \in {NoQP, QX} }

NewEntries ==
  { ChainEntry(h, "c1", qp) : h \in {"app", "post"}, qp \in {NoQP, QX} }
    \cup { ChainEntry(h, "c2", NoQP) : h \in {"app", "post"} }

PartitionInputs ==
  { [NoPure EXCEPT !.fn = "partitionHandlers", !.old = old, !.new = new] :
      old \in SeqsUpTo(OldEntries, MaxChain), new \in SeqsUpTo(NewEntries, MaxChain) }

\* The chains handed to trigger: router.currentHandlerInfos, which is null
\* until a transition was finalized.
TriggerChains ==
  SeqsUpTo({ ChainEntry(h, "c1", NoQP) : h \in {"app", "about", "post"} }, MaxChain)

TriggerInputs ==
  { [NoPure EXCEPT !.fn = "trigger", !.new = c.chain, !.isNull = c.isNull, !.name = name,
                   !.ignoreFailure = ignoreFailure, !.hasTriggerEvent = hasTriggerEvent] :
      c \in { [chain |-> chain, isNull |-> FALSE] : chain \in TriggerChains }
              \cup { [chain |-> << >>, isNull |-> TRUE] },
      name \in EventNames, ignoreFailure \in BOOLEAN, hasTriggerEvent \in BOOLEAN }

\* The declarations handed to DSL.map: routes, resources without callback,
\* and resources whose callback holds up to MaxDecls declarations, nested
\* up to MaxDepth deep.  Ember declares the resource application with the
\* path "/" (lines 2775-2782).
ResourceNames == { << "posts" >>, << "comments" >>, << "application" >> }

ResourceOptions(name) == IF name = << "application" >> THEN Options(TRUE, << "/" >>) ELSE NoOptions

RECURSIVE Decls(_)
Decls(depth) ==
  { Decl("route", << "new" >>, NoOptions, FALSE, << >>) }
  \cup { Decl("resource", name, ResourceOptions(name), FALSE, << >>) : name \in ResourceNames }
  \cup IF depth <= 1 THEN {}
       ELSE { Decl("resource", name, ResourceOptions(name), TRUE, body) :
                name \in ResourceNames, body \in SeqsUpTo(Decls(depth - 1), MaxDecls) }

\* One resource with a callback is declared at the top.
DSLInputs ==
  { [NoPure EXCEPT !.fn = "DSL.map", !.decls = << d >>, !.namedSubstates = namedSubstates] :
      d \in { e \in Decls(MaxDepth) : e.hasCallback }, namedSubstates \in BOOLEAN }

InitPure ==
  /\ InitRouter
  /\ pure \in PartitionInputs \cup TriggerInputs \cup DSLInputs
  /\ recognizer = NewRecognizer

applyDSLmap ==
  /\ pure.fn = "DSL.map" /\ ~pure.done
  /\ pure' = [pure EXCEPT !.done = TRUE,
                          !.out = [NoOut EXCEPT !.matches =
                                     DSLmap(pure.decls, pure.namedSubstates).matches]]
  /\ UNCHANGED << routerState, recognizer >>

applyPartitionHandlers ==
  /\ pure.fn = "partitionHandlers" /\ ~pure.done
  /\ pure' = [pure EXCEPT !.done = TRUE,
                          !.out = LET p == partitionHandlers(pure.old, pure.new)
                                  IN [NoOut EXCEPT !.updatedContext = p.updatedContext,
                                                   !.exited = p.exited,
                                                   !.entered = p.entered,
                                                   !.unchanged = p.unchanged]]
  /\ UNCHANGED << routerState, recognizer >>

applyTrigger ==
  /\ pure.fn = "trigger" /\ ~pure.done
  /\ pure' = [pure EXCEPT !.done = TRUE,
                          !.out = LET r == trigger(pure.hasTriggerEvent, pure.isNull, pure.new,
                                                   pure.ignoreFailure, pure.name)
                                  IN [NoOut EXCEPT !.seen = r.seen, !.threw = r.threw,
                                                   !.defaultRan = r.defaultRan]]
  /\ UNCHANGED << routerState, recognizer >>

(* --------------------------- the specifications ------------------------ *)
\* Spec: any calls and callbacks, from a router that was just constructed.
Next ==
  \/ \E r \in NamedRequests : transitionTo(r, MaxTrans)
  \/ \E r \in ReplaceRequests : replaceWith(r, MaxTrans)
  \/ \E url \in Urls : handleURL(url, MaxTrans)
  \/ \E t \in Transitions : abort(t)
  \/ \E t \in Transitions : retry(t, MaxTrans)
  \/ \E t \in Transitions : handleAbort(t)
  \/ \E t \in Transitions : invokeHook(t)
  \/ \E t \in Transitions : hookFulfils(t)
  \/ \E t \in Transitions : hookRejects(t)
  \/ \E t \in Transitions : handleError(t)
  \/ \E t \in Transitions : transitionFailure(t)
  \/ \E t \in Transitions : transitionSuccess(t)
  \/ \E t \in Transitions : hookReturns(t)
  \/ \E t \in Transitions : hookThrows(t)

Spec == Init /\ [][Next]_vars

\* SpecSettled: the application first enters a route undisturbed (its first
\* transition resolves before anything else is called), and any calls and
\* callbacks follow.
FirstRequest == Req("post", <<>>, NoQP)
Settling == currentSequence = 0 \/ (currentSequence = 1 /\ trans[1].pc.at # "done")
SettledLimit == MaxTrans + 1

NextSettled ==
  \/ currentSequence = 0 /\ transitionTo(FirstRequest, SettledLimit)
  \/ Settling /\ currentSequence = 1 /\ handleAbort(1)
  \/ Settling /\ currentSequence = 1 /\ invokeHook(1)
  \/ Settling /\ currentSequence = 1 /\ hookFulfils(1)
  \/ Settling /\ currentSequence = 1 /\ transitionSuccess(1)
  \/ Settling /\ currentSequence = 1 /\ hookReturns(1)
  \/ ~Settling /\ \E r \in NamedRequests : transitionTo(r, SettledLimit)
  \/ ~Settling /\ \E r \in ReplaceRequests : replaceWith(r, SettledLimit)
  \/ ~Settling /\ \E url \in Urls : handleURL(url, SettledLimit)
  \/ ~Settling /\ \E t \in Transitions : abort(t)
  \/ ~Settling /\ \E t \in Transitions : retry(t, SettledLimit)
  \/ ~Settling /\ \E t \in Transitions : handleAbort(t)
  \/ ~Settling /\ \E t \in Transitions : invokeHook(t)
  \/ ~Settling /\ \E t \in Transitions : hookFulfils(t)
  \/ ~Settling /\ \E t \in Transitions : hookRejects(t)
  \/ ~Settling /\ \E t \in Transitions : handleError(t)
  \/ ~Settling /\ \E t \in Transitions : transitionFailure(t)
  \/ ~Settling /\ \E t \in Transitions : transitionSuccess(t)
  \/ ~Settling /\ \E t \in Transitions : hookReturns(t)
  \/ ~Settling /\ \E t \in Transitions : hookThrows(t)

SpecSettled == Init /\ [][NextSettled]_vars

\* SpecStructural: as SpecSettled, with MaxTrans Transitions in all, and
\* among the calls those with a structural error.
NextStructural ==
  \/ currentSequence = 0 /\ transitionTo(FirstRequest, MaxTrans)
  \/ Settling /\ currentSequence = 1 /\ handleAbort(1)
  \/ Settling /\ currentSequence = 1 /\ invokeHook(1)
  \/ Settling /\ currentSequence = 1 /\ hookFulfils(1)
  \/ Settling /\ currentSequence = 1 /\ transitionSuccess(1)
  \/ Settling /\ currentSequence = 1 /\ hookReturns(1)
  \/ ~Settling /\ \E r \in NamedRequests \cup StructuralErrorRequests : transitionTo(r, MaxTrans)
  \/ ~Settling /\ \E r \in ReplaceRequests \cup StructuralErrorRequests : replaceWith(r, MaxTrans)
  \/ ~Settling /\ \E url \in Urls : handleURL(url, MaxTrans)
  \/ ~Settling /\ \E t \in Transitions : abort(t)
  \/ ~Settling /\ \E t \in Transitions : retry(t, MaxTrans)
  \/ ~Settling /\ \E t \in Transitions : handleAbort(t)
  \/ ~Settling /\ \E t \in Transitions : invokeHook(t)
  \/ ~Settling /\ \E t \in Transitions : hookFulfils(t)
  \/ ~Settling /\ \E t \in Transitions : hookRejects(t)
  \/ ~Settling /\ \E t \in Transitions : handleError(t)
  \/ ~Settling /\ \E t \in Transitions : transitionFailure(t)
  \/ ~Settling /\ \E t \in Transitions : transitionSuccess(t)
  \/ ~Settling /\ \E t \in Transitions : hookReturns(t)
  \/ ~Settling /\ \E t \in Transitions : hookThrows(t)

SpecStructural == Init /\ [][NextStructural]_vars

\* SpecSynchronous: the application first enters a route undisturbed; then
\* come calls of transitionTo, abort, reset and intermediateTransitionTo
\* and the callbacks, with MaxTrans Transitions in all.
IntermediateRequests ==
  { Req("about", <<>>, NoQP), Req("post", <<"m1">>, NoQP), Req("about", <<"m1">>, NoQP) }

NextSynchronous ==
  \/ currentSequence = 0 /\ transitionTo(FirstRequest, MaxTrans)
  \/ Settling /\ currentSequence = 1 /\ handleAbort(1)
  \/ Settling /\ currentSequence = 1 /\ invokeHook(1)
  \/ Settling /\ currentSequence = 1 /\ hookFulfils(1)
  \/ Settling /\ currentSequence = 1 /\ transitionSuccess(1)
  \/ Settling /\ currentSequence = 1 /\ hookReturns(1)
  \/ ~Settling /\ \E r \in NamedRequests : transitionTo(r, MaxTrans)
  \/ ~Settling /\ \E t \in Transitions : abort(t)
  \/ ~Settling /\ reset
  \/ ~Settling /\ \E r \in IntermediateRequests : intermediateTransitionTo(r)
  \/ ~Settling /\ \E t \in Transitions : handleAbort(t)
  \/ ~Settling /\ \E t \in Transitions : invokeHook(t)
  \/ ~Settling /\ \E t \in Transitions : hookFulfils(t)
  \/ ~Settling /\ \E t \in Transitions : hookRejects(t)
  \/ ~Settling /\ \E t \in Transitions : handleError(t)
  \/ ~Settling /\ \E t \in Transitions : transitionFailure(t)
  \/ ~Settling /\ \E t \in Transitions : transitionSuccess(t)
  \/ ~Settling /\ \E t \in Transitions : hookReturns(t)
  \/ ~Settling /\ \E t \in Transitions : hookThrows(t)

SpecSynchronous == Init /\ [][NextSynchronous]_vars

\* SpecPure: partitionHandlers and trigger applied once to each input of a
\* bounded set.
NextPure ==
  \/ applyPartitionHandlers
  \/ applyTrigger
  \/ applyDSLmap

SpecPure == InitPure /\ [][NextPure]_vars

(* ---------------------- the recognizer on its own ---------------------- *)
\* The routes that are added, each under its own name: with dynamic, star
\* and static segments, two of one shape, some sharing prefixes of the
\* automaton, one nested, two with query params.
RouteEntry(path, handler, queryParams) ==
  [path |-> path, handler |-> handler, queryParams |-> queryParams]

Added(as, routes) == [as |-> as, routes |-> routes]

RoutesToAdd ==
  { Added("A", << RouteEntry(<< "/", "a", "/", ":", "x" >>, "hA", << >>) >>),
    Added("B", << RouteEntry(<< "/", ":", "y", "/", "b" >>, "hB", << >>) >>),
    Added("C", << RouteEntry(<< "/", ":", "y", "/", "a" >>, "hC", << >>) >>),
    Added("S", << RouteEntry(<< "/", "a", "/", "b" >>, "hS", << >>) >>),
    Added("T", << RouteEntry(<< "/", "*", "s" >>, "hT", << >>) >>),
    Added("W", << RouteEntry(<< "/", "a", "/", ":", "w" >>, "hW", << >>) >>),
    Added("N", << RouteEntry(<< "/" >>, "app", << << "q" >> >>),
                  RouteEntry(<< "/", ":", "p" >>, "hM", << >>),
                  RouteEntry(<< "/", ":", "v" >>, "hN", << << "r" >> >>) >>),
    Added("Q", << RouteEntry(<< "/", "b" >>, "hQ", << << "q" >>, << "r" >> >>) >>) }

RouteNamesToGenerate == { r.as : r \in RoutesToAdd } \cup { "nope" }

\* The paths that are recognized: every string of up to MaxPath characters
\* that starts with "/", and some with a query string.
PathChars == { "/", "a", "b" }

PathsUpTo(n) ==
  UNION { { << "/" >> \o p : p \in [1..(k - 1) -> PathChars] } : k \in 1..n }

QueryUrls ==
  { << "b", "?", "q", "=", "a" >>,
    << "/", "b", "?", "q", "&", "r", "=", "a" >>,
    << "/", "b", "?", "q", "=" >>,
    << "/", "b", "?", "%" >>,
    << "/", "b", "/", "b", "/", "b", "?", "%" >>,
    << "/", "b", "?", "q", "=", "%", "2", "F" >>,
    << "/", "a", "/", "b", "?", "r", "=", "b" >> }

UrlsToRecognize == PathsUpTo(MaxPath) \cup QueryUrls

\* The params and query params that generate is given.
ParamValues == { << "a" >>, << "b" >>, << "a", "/", "b" >>, << >> }

NamesOfRoute(added) ==
  UNION { { NamesOf(parse(added.routes[i].path))[j] :
            j \in 1..Len(NamesOf(parse(added.routes[i].path))) } : i \in 1..Len(added.routes) }

Bindings(name) ==
  IF name = "nope" THEN { EmptyObj }
  ELSE [NamesOfRoute(CHOOSE r \in RoutesToAdd : r.as = name) -> ParamValues]

Pair(key, value) == [key |-> key, value |-> value]

QueryValues == { True, Str(<< "a" >>), Str(<< >>), Str(<< "a", "&", "b" >>) }

QueryParamsToGenerate ==
  { << >> }
    \cup { << Pair(key, value) >> : key \in { << "q" >>, << "r" >>, << "z" >> },
                                     value \in QueryValues }
    \cup { << Pair(<< "q" >>, v), Pair(<< "r" >>, w) >> : v \in QueryValues, w \in QueryValues }

\* A call of the recognizer and what came of it: for generate the name and
\* the params and the URL it returned, for recognize the URL and what it
\* returned, together with the name and the params that the URL was
\* generated for, if it was.  added is the names of the routes added so
\* far, in the order of the add calls.
RecognizerCall(fn, name, params, hasQueryParams, queryParams, url, out) ==
  [fn |-> fn, name |-> name, params |-> params, hasQueryParams |-> hasQueryParams,
   queryParams |-> queryParams, url |-> url, out |-> out, added |-> << >>]

NoRecognized == Recognized(FALSE, FALSE, 0, << >>)

NoRecognizerCall == RecognizerCall("none", "none", EmptyObj, FALSE, << >>, << >>, NoRecognized)

\* No call has looked at the recognizer since it was made or added to.  What
\* a call returns does not depend on the calls before it, which leave the
\* recognizer as it is, so the calls are made of a fresh recognizer.
Fresh == pure.fn \in { "none", "add" }

InitRecognizer ==
  /\ InitRouter
  /\ recognizer = NewRecognizer
  /\ pure = NoRecognizerCall

\* recognizer.add(routes, {as: name})
recognizerAdd(added) ==
  /\ Fresh
  /\ Cardinality(DOMAIN recognizer.names) < MaxAdds
  /\ added.as \notin DOMAIN recognizer.names
  /\ recognizer' = add(recognizer, added.routes, added.as)
  /\ pure' = [NoRecognizerCall EXCEPT !.fn = "add", !.name = added.as,
                                      !.added = Append(pure.added, added.as)]
  /\ UNCHANGED routerState

\* recognizer.generate(name, params), params.queryParams there or not
recognizerGenerate(name, params, hasQueryParams, queryParams) ==
  /\ Fresh
  /\ pure' = LET g == generate(recognizer, name, params, hasQueryParams, queryParams)
             IN [RecognizerCall("generate", name, params, hasQueryParams, queryParams,
                                g.string, [NoRecognized EXCEPT !.threw = g.threw])
                   EXCEPT !.added = pure.added]
  /\ UNCHANGED << routerState, recognizer >>

\* recognizer.recognize(url)
recognizerRecognize(url) ==
  /\ Fresh
  /\ pure' = [RecognizerCall("recognize", "none", EmptyObj, FALSE, << >>, url,
                             RouteRecognizer_recognize(recognizer, url))
                EXCEPT !.added = pure.added]
  /\ UNCHANGED << routerState, recognizer >>

\* recognizer.recognize(recognizer.generate(name, params)): the URL that the
\* latest call generated is recognized.
recognizerRecognizeGenerated ==
  /\ pure.fn = "generate" /\ ~pure.out.threw
  /\ pure' = [pure EXCEPT !.fn = "recognize",
                          !.out = RouteRecognizer_recognize(recognizer, pure.url)]
  /\ UNCHANGED << routerState, recognizer >>

NextRecognizer ==
  \/ \E added \in RoutesToAdd : recognizerAdd(added)
  \/ \E name \in RouteNamesToGenerate : \E params \in Bindings(name) :
       recognizerGenerate(name, params, FALSE, << >>)
  \/ \E name \in { "N", "Q", "S", "nope" } : \E queryParams \in QueryParamsToGenerate :
       recognizerGenerate(name, CHOOSE params \in Bindings(name) : TRUE, TRUE, queryParams)
  \/ \E url \in UrlsToRecognize : recognizerRecognize(url)
  \/ recognizerRecognizeGenerated

SpecRecognizer == InitRecognizer /\ [][NextRecognizer]_vars

(* ------------------------------ properties ----------------------------- *)
\* The calls that ask performTransition for a transition.
EntryPoints == {"transitionTo", "replaceWith", "handleURL"}

\* A Transition that is un-aborted, unsettled and still running validation
\* or finalization.
Underway(t) ==
  ~trans[t].isAborted /\ trans[t].promise = "pending" /\ trans[t].pc.at # "done"

\* C1: after any sequence of calls and hook completions there are never two
\* Transitions that are both un-aborted, unsettled and still running
\* validation or finalization.
C1_AtMostOneActive == Cardinality({t \in Transitions : Underway(t)}) <= 1

\* C2: whenever a request creates a new Transition while
\* router.activeTransition holds a Transition, that Transition gets
\* isAborted = true and isActive = false and the new one becomes
\* router.activeTransition.
C2_Preemption ==
  [][(/\ lastCall'.op \in EntryPoints \cup {"retry"}
      /\ lastCall'.name # "null"
      /\ lastCall'.found # 0
      /\ currentSequence' = currentSequence + 1)
     => /\ trans'[lastCall'.found].isAborted
        /\ ~trans'[lastCall'.found].isActive
        /\ activeTransition' = currentSequence'
        /\ lastCall'.ret = currentSequence'
        /\ ~trans'[currentSequence'].isAborted]_vars

\* A Transition was superseded while one of its hooks was in flight.
C2_Witness ==
  /\ lastCall.op \in EntryPoints
  /\ lastCall.found # 0
  /\ lastCall.ret = currentSequence
  /\ lastCall.ret # lastCall.found
  /\ activeTransition = lastCall.ret
  /\ trans[lastCall.found].isAborted
  /\ trans[lastCall.found].pc.at = "hook"

\* The request of a call has the target name, the provided models
\* (positionally) and the query params of Transition T.
SameRequest(call, T) ==
  /\ call.name = T.targetName
  /\ call.models = T.providedModelsArray
  /\ call.queryParams = T.queryParams

\* C3: a request that arrives while a Transition is active and has its target
\* name, provided models and query params returns that same Transition; the
\* sequence counter does not advance, the active Transition is not aborted
\* and its hooks are not restarted.
C3_Deduplication ==
  [][(/\ lastCall'.op \in EntryPoints
      /\ activeTransition # 0
      /\ SameRequest(lastCall', trans[activeTransition]))
     => /\ ~lastCall'.threw
        /\ lastCall'.ret = activeTransition
        /\ currentSequence' = currentSequence
        /\ activeTransition' = activeTransition
        /\ ~trans'[activeTransition].isAborted
        /\ trans'[activeTransition].pc = trans[activeTransition].pc
        /\ trans'[activeTransition].resolveIndex = trans[activeTransition].resolveIndex
        /\ trans'[activeTransition].lastHook = trans[activeTransition].lastHook
        /\ trans'[activeTransition].hooked = trans[activeTransition].hooked]_vars

\* A request with query params was collapsed into the active Transition
\* while one of its hooks was in flight.
C3_Witness ==
  /\ lastCall.op \in EntryPoints
  /\ lastCall.found # 0
  /\ lastCall.ret = lastCall.found
  /\ lastCall.queryParams = QX
  /\ activeTransition = lastCall.ret
  /\ trans[lastCall.ret].pc.at = "hook"

\* C4: when transitionTo, replaceWith or handleURL is de-duplicated into the
\* active Transition, no field of that Transition differs after the call
\* from before it.
C4_DedupUnchanged ==
  [][(/\ lastCall'.op \in EntryPoints
      /\ ~lastCall'.threw
      /\ activeTransition # 0
      /\ lastCall'.ret = activeTransition
      /\ currentSequence' = currentSequence)
     => trans'[activeTransition] = trans[activeTransition]]_vars

\* C5: once a pending Transition is aborted, no step fulfils its promise.
C5_AbortedNeverFulfilled ==
  [][\A t \in Transitions :
       (trans[t].isAborted /\ trans[t].promise = "pending")
         => trans'[t].promise # "fulfilled"]_vars

\* C6: when the chain of callbacks of a Transition that was aborted
\* (explicitly or by being superseded) ends, its promise is rejected with
\* TransitionAborted.
C6_AbortedRejects ==
  [][\A t \in Transitions :
       (/\ trans[t].isAborted
        /\ trans[t].errorReason = "none"
        /\ trans[t].promise = "pending"
        /\ trans[t].pc.at # "done"
        /\ trans'[t].pc.at = "done")
         => (trans'[t].promise = "rejected" /\ trans'[t].value = TransitionAborted)]_vars

\* C7: retry() on an aborted Transition produces a new Transition, with a
\* greater sequence number, that has its targetName, providedModelsArray,
\* params, queryParams and data.
C7_RetryIsNew ==
  [][(lastCall'.op = "retry" /\ trans[lastCall'.on].isAborted)
     => /\ ~lastCall'.threw
        /\ lastCall'.ret = currentSequence + 1
        /\ currentSequence' = currentSequence + 1
        /\ trans'[lastCall'.ret].targetName = trans[lastCall'.on].targetName
        /\ trans'[lastCall'.ret].providedModelsArray = trans[lastCall'.on].providedModelsArray
        /\ trans'[lastCall'.ret].params = trans[lastCall'.on].params
        /\ trans'[lastCall'.ret].queryParams = trans[lastCall'.on].queryParams
        /\ trans'[lastCall'.ret].data = trans[lastCall'.on].data]_vars

\* Hook event a is of an earlier handler than b, or of an earlier hook of
\* the same handler.
HookBefore(a, b) == a.index < b.index \/ (a.index = b.index /\ a.hook < b.hook)

\* C8: the hooks of a Transition run at or after the match point, root-most
\* handler first and beforeModel, model, afterModel within a handler; a hook
\* starts only when no hook is in flight and every hook that ran was of an
\* earlier handler or an earlier hook of its handler.
C8_HookOrdering ==
  [][\A t \in Transitions :
       trans'[t].lastHook # trans[t].lastHook
         => /\ trans'[t].lastHook.index >= trans[t].matchPoint
            /\ trans'[t].lastHook.what = "start"
                 => \/ trans[t].lastHook.what = "none"
                    \/ /\ trans[t].lastHook.what = "settle"
                       /\ HookBefore(trans[t].lastHook, trans'[t].lastHook)
            /\ trans'[t].lastHook.what = "settle"
                 => /\ trans[t].lastHook.what = "start"
                    /\ trans[t].lastHook.index = trans'[t].lastHook.index
                    /\ trans[t].lastHook.hook = trans'[t].lastHook.hook
            /\ trans'[t].lastHook.what # "none"]_vars

\* beforeModel of the second handler is in flight after a hook of the first
\* handler ran.
C8_Witness ==
  \E t \in Transitions :
    /\ trans[t].lastHook = [index |-> 1, hook |-> 0, what |-> "start"]
    /\ 0 \in trans[t].hooked

\* No validation hook ran for a handler below the match point.
NoHookBelowMatchPoint == \A t \in Transitions : \A i \in trans[t].hooked : i >= trans[t].matchPoint

\* The Transition a call created.
Created(call) == call.op \in EntryPoints \cup {"retry"} /\ call.name # "null" /\ call.ret = currentSequence + 1

TakenOver(call, info) ==
  IF call.op = "handleURL" \/ call.found = 0 THEN Undef
  ELSE IF Truthy(Get(trans[call.found].resolvedModels, info.name))
  THEN trans[call.found].resolvedModels[info.name]
  ELSE IF info.isDynamic THEN Get(trans[call.found].providedModels, info.name)
  ELSE Undef

C10_ErrorBubbling ==
  [][\A t \in Transitions :
       (/\ trans[t].pc.at = "failure"
        /\ trans[t].pc.reason # TransitionAborted
        /\ trans'[t].promise = "rejected")
         => /\ trans[t].errorReason = trans[t].pc.reason
            /\ trans[t].errorSeen = triggerFrom(trans[t].handlerInfos, trans[t].lastHook.index + 1, << >>)
            /\ trans'[t].value = trans[t].pc.reason]_vars
\* C11: when a validation hook has failed with a reason that is no abort,
\* the chain of the Transition ends with the error event fired for that
\* reason and the promise rejected, also when the Transition was superseded
\* or aborted while the hook was in flight.
C11_HookFailureConverted ==
  [][\A t \in Transitions :
       (/\ trans[t].pc.at = "failure"
        /\ trans[t].pc.reason \in HookErrors
        /\ trans'[t].pc.at = "done")
         => /\ trans'[t].errorReason = trans[t].pc.reason
            /\ trans'[t].promise = "rejected"]_vars

\* C12: the error event is never fired with a TransitionAborted reason.
C12_AbortNotSurfaced == \A t \in Transitions : trans[t].errorReason # TransitionAborted

\* A Transition was rejected with TransitionAborted after its finalization
\* had begun (its URL update was made): the abort was detected after enter
\* or setup.
C12_Witness ==
  \E t \in Transitions :
    /\ trans[t].promise = "rejected"
    /\ trans[t].value = TransitionAborted
    /\ trans[t].urlCalls # << >>
    /\ trans[t].errorReason = "none"
\* C13: the URL is updated exactly once for a Transition that ends
\* resolved, and not at all for one that does not end resolved (no route
\* registered here has a handler marked inaccessibleByURL).
C13_UrlUpdatedOncePerSuccess ==
  \A t \in Transitions :
    trans[t].pc.at = "done" /\ trans[t].targetName # "null"
      => Len(trans[t].urlCalls) = (IF trans[t].promise = "fulfilled" THEN 1 ELSE 0)
\* C14: when the promise of a Transition is fulfilled, its value is the
\* deepest handler of its chain, and router.currentHandlerInfos names
\* exactly that chain, root first, each handler with the model resolved for
\* it as its context.
C14_SuccessCommit ==
  [][\A t \in Transitions :
       (trans[t].promise = "pending" /\ trans'[t].promise = "fulfilled")
         => /\ trans'[t].value = trans[t].handlerInfos[Len(trans[t].handlerInfos)].name
            /\ Len(currentHandlerInfos') = Len(trans[t].handlerInfos)
            /\ \A i \in 1..Len(trans[t].handlerInfos) :
                 /\ currentHandlerInfos'[i].name = trans[t].handlerInfos[i].name
                 /\ currentHandlerInfos'[i].context =
                      Get(trans[t].resolvedModels, trans[t].handlerInfos[i].name)
                 /\ handlerContext'[trans[t].handlerInfos[i].name] =
                      currentHandlerInfos'[i].context]_vars

\* A Transition to post with a provided model resolved after post had been
\* entered with another context: handler post was updated, handler app
\* stayed as it was.
C14_Witness ==
  \E t \in Transitions :
    /\ t > 1
    /\ trans[t].promise = "fulfilled"
    /\ trans[t].value = "post"
    /\ trans[1].promise = "fulfilled"
    /\ trans[1].value = "post"
    /\ Len(currentHandlerInfos) = 2
    /\ currentHandlerInfos[2].context = "m1"
    /\ trans[1].resolvedModels["post"] = "h1"
\* C15: resolveIndex never passes handlerInfos.length, and a Transition made
\* by performTransition whose chain of callbacks has ended (no callback of it
\* is left to run) has reached a terminal outcome: its promise is fulfilled
\* or rejected.
C15_Terminates ==
  \A t \in Transitions :
    /\ trans[t].resolveIndex <= Len(trans[t].handlerInfos)
    /\ (trans[t].pc.at = "done" /\ trans[t].targetName # "null")
         => trans[t].promise \in {"fulfilled", "rejected"}

\* The least member of a non-empty set of numbers.
Least(S) == CHOOSE d \in S : \A e \in S : d <= e

\* The first index at which the new chain's handler differs from the old
\* one or the old chain has no entry; one past the new chain when there is
\* none.
FirstDivergence(old, new) ==
  Least({ i \in 1..Len(new) : i > Len(old) \/ old[i].name # new[i].name } \cup { Len(new) + 1 })

\* The first index before the name divergence whose context reference or
\* query params differ from the old entry; the divergence when there is none.
FirstChange(old, new) ==
  Least({ i \in 1..(FirstDivergence(old, new) - 1) :
            old[i].context # new[i].context \/ old[i].queryParams # new[i].queryParams }
        \cup { FirstDivergence(old, new) })

\* partitionHandlers was applied to pure.old and pure.new.
Partitioned == pure.fn = "partitionHandlers" /\ pure.done

\* C16: for all old and new chains, with d the first index at which the new
\* handler differs from the old one (or the old chain has no entry),
\* partitionHandlers puts new[d..] in order in entered and old[d..],
\* innermost first and with the old entries beyond the new chain's length,
\* in exited, and unchanged and updatedContext hold entries of indices
\* before d only.
C16_PartitionOnNameDivergence ==
  Partitioned =>
    LET old == pure.old
        new == pure.new
        out == pure.out
        d == FirstDivergence(old, new)
    IN /\ out.entered = SubSeq(new, d, Len(new))
       /\ Len(out.exited) = (IF d <= Len(old) THEN Len(old) - d + 1 ELSE 0)
       /\ \A k \in 1..Len(out.exited) : out.exited[k] = old[Len(old) + 1 - k]
       /\ Len(out.unchanged) + Len(out.updatedContext) <= d - 1
       /\ \A k \in 1..Len(out.unchanged) : out.unchanged[k] = old[k]
       /\ \A k \in 1..Len(out.updatedContext) :
            out.updatedContext[k] = new[Len(out.unchanged) + k]

\* The names diverge at an index that both chains have, a deeper index has
\* the same name in both chains, and the old chain is longer than the new.
C16_Witness ==
  /\ Partitioned
  /\ LET d == FirstDivergence(pure.old, pure.new)
     IN /\ d < Len(pure.new)
        /\ Len(pure.new) < Len(pure.old)
        /\ pure.new[d + 1].name = pure.old[d + 1].name
  /\ Len(pure.out.exited) = 3
  /\ Len(pure.out.entered) = 2

\* C17: before any name divergence, the first index whose context reference
\* or query params differ from the old entry and every later index up to
\* the name divergence are in updatedContext, also the indices whose own
\* context and query params equal the old ones; the indices before that
\* first change are in unchanged.
C17_PartitionOnContextChange ==
  Partitioned =>
    LET old == pure.old
        new == pure.new
        c == FirstChange(old, new)
        d == FirstDivergence(old, new)
    IN /\ pure.out.unchanged = SubSeq(old, 1, c - 1)
       /\ pure.out.updatedContext = SubSeq(new, c, d - 1)

\* An unchanged index, then one whose query params alone changed, then one
\* whose context and query params are those of the old entry.
C17_Witness ==
  /\ Partitioned
  /\ FirstChange(pure.old, pure.new) = 2
  /\ FirstDivergence(pure.old, pure.new) = 4
  /\ pure.old[2].context = pure.new[2].context
  /\ pure.old[3] = pure.new[3]
  /\ Len(pure.out.updatedContext) = 2
  /\ Len(pure.out.unchanged) = 1

\* trigger was applied to the chain pure.new (null when pure.isNull).
Triggering == pure.fn = "trigger" /\ pure.done

\* The indices of the chain whose handler defines the action ...
Definers == { i \in 1..Len(pure.new) : DefinesEvent(pure.new[i].name, pure.name) }

\* ... and, of these, the one nearest the leaf whose function does not
\* return true (0 when every function returns true).
Stopper ==
  LET S == { i \in Definers : ~EventReturnsTrue(pure.new[i].name, pure.name) }
  IN IF S = {} THEN 0 ELSE CHOOSE i \in S : \A j \in S : j <= i

\* The handlers that ran are the definers from the leaf toward the root, up
\* to and including the first whose function does not return true.
WalkedLeafToRoot ==
  /\ { pure.out.seen[k] : k \in 1..Len(pure.out.seen) } = { i \in Definers : i >= Stopper }
  /\ \A k \in 1..(Len(pure.out.seen) - 1) : pure.out.seen[k] > pure.out.seen[k + 1]

\* C20 as stated: trigger walks the chain from the leaf toward the root,
\* goes on past a handler that defines the action only when it returns true,
\* and throws exactly when the action is not ignorable and no handler of the
\* chain handled it or there is no chain.
C20_ThrowsWhenUnhandled ==
  Triggering =>
    /\ WalkedLeafToRoot
    /\ pure.out.threw <=> (~pure.ignoreFailure /\ (pure.isNull \/ Definers = {}))

\* C20, amended: as above, but under Ember's triggerEvent an action that has
\* a default action handler and that no handler of a chain stopped runs the
\* default action handler and does not throw.
C20_ThrowsUnlessDefaultHandler ==
  Triggering =>
    /\ WalkedLeafToRoot
    /\ pure.out.threw <=>
         /\ ~pure.ignoreFailure
         /\ \/ pure.isNull
            \/ /\ Definers = {}
               /\ ~(pure.hasTriggerEvent /\ pure.name \in DefaultActionHandlers)
    /\ pure.out.defaultRan <=>
         /\ pure.hasTriggerEvent /\ ~pure.isNull
         /\ pure.name \in DefaultActionHandlers
         /\ Stopper = 0

\* An action without default handler that no handler of a chain of two
\* defines is triggered through triggerEvent, and throws.
C20_Witness ==
  /\ Triggering
  /\ pure.hasTriggerEvent /\ ~pure.isNull /\ ~pure.ignoreFailure
  /\ Len(pure.new) = 2
  /\ Definers = {}
  /\ pure.name \notin DefaultActionHandlers
  /\ pure.out.threw

\* A URL that recognize does not accept, or whose recognized chain holds a
\* handler marked inaccessibleByURL.
Unrecognized(url) ==
  \/ recognize(url) = << >>
  \/ \E i \in 1..Len(recognize(url)) : InaccessibleByURL(recognize(url)[i].handler)

\* C19: handleURL with a URL that recognize does not accept, or whose
\* recognized chain holds a handler marked inaccessibleByURL, does not
\* throw; it returns a new Transition whose promise is rejected with an
\* UnrecognizedURLError, no hook runs for it then or later, and the active
\* transition and every other Transition are as they were.
C19_UnrecognizedURL ==
  /\ [](\A t \in Transitions :
          trans[t].value = "UnrecognizedURLError"
            => /\ trans[t].promise = "rejected"
               /\ trans[t].hooked = {}
               /\ trans[t].lastHook = NoHook
               /\ trans[t].pc.at = "done")
  /\ [][\A url \in Urls :
          (Unrecognized(url) /\ handleURL(url, MaxTrans))
            => /\ ~lastCall'.threw
               /\ lastCall'.ret = currentSequence + 1
               /\ currentSequence' = currentSequence + 1
               /\ trans'[lastCall'.ret].promise = "rejected"
               /\ trans'[lastCall'.ret].value = "UnrecognizedURLError"
               /\ activeTransition' = activeTransition
               /\ \A t \in Transitions : trans'[t] = trans[t]]_vars

\* handleURL returned a Transition rejected with UnrecognizedURLError while
\* another Transition is the active one, in the middle of its validation.
C19_Witness ==
  /\ lastCall.op = "handleURL"
  /\ lastCall.ret = currentSequence
  /\ trans[currentSequence].value = "UnrecognizedURLError"
  /\ activeTransition # 0
  /\ activeTransition = lastCall.was
  /\ activeTransition # lastCall.ret
  /\ Underway(activeTransition)
  /\ trans[activeTransition].hooked # {}

\* The dynamic segments of the chain of a registered route.
DynamicSegments(name) ==
  Cardinality({ i \in 1..Len(handlersFor(name)) : handlersFor(name)[i].names # << >> })

\* A request that names an unregistered route or passes more context
\* objects than the chain of the route has dynamic segments.
StructuralError(r) ==
  \/ r.name \notin RouteNames
  \/ Len(r.models) > DynamicSegments(r.name)

\* C18: a transitionTo or replaceWith call that names an unregistered route
\* or passes more context objects than the target chain has dynamic
\* segments throws at the call site and leaves the router as it was:
\* router.activeTransition is the same Transition and not aborted, no
\* Transition is created, currentHandlerInfos is untouched.
C18_StructuralErrorsThrow ==
  [][\A r \in NamedRequests \cup ReplaceRequests \cup StructuralErrorRequests :
       (StructuralError(r) /\ (transitionTo(r, MaxTrans) \/ replaceWith(r, MaxTrans)))
         => /\ lastCall'.threw
            /\ lastCall'.ret = 0
            /\ activeTransition' = activeTransition
            /\ trans' = trans
            /\ currentSequence' = currentSequence
            /\ currentHandlerInfos' = currentHandlerInfos
            /\ UNCHANGED routerVars]_vars

\* A call with too many context objects threw while a route is entered and
\* a Transition is active in the middle of its validation.
C18_Witness ==
  /\ lastCall.threw
  /\ lastCall.op = "transitionTo"
  /\ lastCall.name = "about"
  /\ lastCall.models = << "m1" >>
  /\ currentHandlerInfos # << >>
  /\ activeTransition # 0
  /\ Underway(activeTransition)
  /\ trans[activeTransition].hooked # {}

\* C30: under every interleaving of abort() and new-transition calls with
\* the promise callbacks of validation, no beforeModel, model or afterModel
\* hook is invoked for a Transition whose isAborted is true at the moment
\* of the invocation.
C30_NoHookOnceAborted ==
  [][\A t \in Transitions :
       (trans'[t].lastHook # trans[t].lastHook /\ trans'[t].lastHook.what = "start")
         => ~trans[t].isAborted]_vars

\* DSL.map was applied to the declarations pure.decls.
Mapped == pure.fn = "DSL.map" /\ pure.done

\* The entry pushed for the k-th declaration of a callback: a child DSL
\* starts with the loading and error routes, and with named substates every
\* declaration is followed by its pair of substates.
EntryAt(matches, k, nested, namedSubstates) ==
  matches[(IF nested THEN 2 ELSE 0) + (k - 1) * (IF namedSubstates THEN 3 ELSE 1) + 1]

RECURSIVE NamedByAncestors(_, _, _, _, _)
\* Every resource of the callback has the entry named by the dot-joined
\* chain of its ancestors' names and its own, and the routes of its child
\* callback have that name as prefix.
NamedByAncestors(body, matches, chain, nested, namedSubstates) ==
  \A k \in 1..Len(body) :
    LET d == body[k]
        m == EntryAt(matches, k, nested, namedSubstates)
        joined == IF chain = << >> THEN d.name ELSE chain \o << "." >> \o d.name
    IN /\ m.name = joined
       /\ d.hasCallback
            => /\ ~m.callback.isNull
               /\ NamedByAncestors(d.body, m.callback.matches, joined, TRUE, namedSubstates)

\* A callback that declares a route or resource at the path "/" (or "")
\* gets no index route of its own.
ExplicitIndex(body) ==
  \E k \in 1..Len(body) :
    body[k].options.hasPath /\ body[k].options.path \in { << >>, << "/" >> }

RECURSIVE NamedAsGiven(_, _, _, _, _)
\* Every resource of the callback has the entry named as the resource was
\* given, and the routes of a callback have the name of the resource that
\* holds them as prefix, unless that resource is application.
NamedAsGiven(body, matches, parent, nested, namedSubstates) ==
  \A k \in 1..Len(body) :
    LET d == body[k]
        m == EntryAt(matches, k, nested, namedSubstates)
    IN /\ d.kind = "resource" => m.name = d.name
       /\ d.kind = "route"
            => m.name = IF parent = << >> \/ parent = << "application" >> THEN d.name
                        ELSE parent \o << "." >> \o d.name
       /\ m.callback.isNull <=> ~d.hasCallback
       /\ d.hasCallback
            => /\ Len(m.callback.matches) =
                    (IF namedSubstates THEN 3 ELSE 1)
                      * (Len(d.body) + (IF ExplicitIndex(d.body) THEN 0 ELSE 1)) + 2
               /\ NamedAsGiven(d.body, m.callback.matches, d.name, TRUE, namedSubstates)

\* C28 as stated: a resource declared inside a parent resource pushes one
\* route entry whose name is the dot-joined chain of its ancestors' names
\* and its own name, and routes declared in its child callback are named
\* with that name as prefix.
C28_ResourceNamedByAncestors ==
  Mapped => NamedByAncestors(pure.decls, pure.out.matches, << >>, FALSE, pure.namedSubstates)

\* C28, amended: a resource pushes one route entry named as the resource
\* was given, whatever resources it is declared inside (followed, when named
\* substates are enabled, by its pair of substates), and routes declared in
\* its child callback are named with that name as prefix, unless the name
\* is application.
C28_ResourceNamedAsGiven ==
  Mapped =>
    /\ Len(pure.out.matches) = (IF pure.namedSubstates THEN 3 ELSE 1)
    /\ NamedAsGiven(pure.decls, pure.out.matches, << >>, FALSE, pure.namedSubstates)

\* posts holds the resource comments, which holds the route new: the
\* entries are named posts, comments and comments.new.
C28_Witness ==
  /\ Mapped
  /\ ~pure.namedSubstates
  /\ pure.decls[1].name = << "posts" >>
  /\ Len(pure.decls[1].body) = 1
  /\ pure.decls[1].body[1].name = << "comments" >>
  /\ pure.decls[1].body[1].hasCallback
  /\ pure.decls[1].body[1].body = << Decl("route", << "new" >>, NoOptions, FALSE, << >>) >>
  /\ pure.out.matches[1].name = << "posts" >>
  /\ pure.out.matches[1].callback.matches[3].name = << "comments" >>
  /\ pure.out.matches[1].callback.matches[3].callback.matches[3].name
       = << "comments", ".", "new" >>

(* ---------------------- properties of the recognizer ------------------- *)
\* C29: over any sequence of add calls, the handlers, regex and types of an
\* accepting state are assigned once: an add leaves them, in every state
\* that was accepting before it, as they were.
C29_AcceptingFieldsAssignedOnce ==
  [][\A s \in 1..Len(recognizer.states) :
       recognizer.states[s].accepting
         => /\ recognizer'.states[s].handlers = recognizer.states[s].handlers
            /\ recognizer'.states[s].regex = recognizer.states[s].regex
            /\ recognizer'.states[s].types = recognizer.states[s].types]_vars

\* The path that recognize looks up for a URL: without the query string,
\* with a leading "/" and without one trailing "/".
PathOf(url) ==
  LET cut == IF indexOf(url, "?") = 0 THEN url ELSE SubSeq(url, 1, indexOf(url, "?") - 1)
      led == IF cut # << >> /\ cut[1] = "/" THEN cut ELSE << "/" >> \o cut
  IN IF Len(led) > 1 /\ led[Len(led)] = "/" THEN SubSeq(led, 1, Len(led) - 1) ELSE led

\* The pattern of a registered route, of all its segments in a row.
RECURSIVE PatternOf(_)
PatternOf(segments) ==
  IF segments = << >> THEN << >>
  ELSE (IF segments[1].type = "epsilon" THEN << >>
        ELSE << "/" >> \o regexOf(segments[1])) \o PatternOf(Tail(segments))

\* The registered route accepts the path.
Accepts(name, path) ==
  LET pattern == PatternOf(recognizer.names[name].segments)
  IN matchFrom(IF pattern = << >> THEN << "/" >> ELSE pattern, 1, path, 1).ok

Accepting(path) == { name \in DOMAIN recognizer.names : Accepts(name, path) }

Tally(name, type) == Count(recognizer.names[name].segments, type)

\* Route a ranks no worse than route b.
RanksNoWorse(a, b) ==
  \/ Tally(a, "star") < Tally(b, "star")
  \/ /\ Tally(a, "star") = Tally(b, "star")
     /\ \/ Tally(a, "dynamic") < Tally(b, "dynamic")
        \/ /\ Tally(a, "dynamic") = Tally(b, "dynamic")
           /\ Tally(a, "static") >= Tally(b, "static")

HandlerNames(entries) == [i \in 1..Len(entries) |-> entries[i].handler]

\* The latest call was recognize, it returned a result, and the result is
\* the chain of the registered route.
Returned(name) ==
  /\ pure.fn = "recognize"
  /\ ~pure.out.threw /\ ~pure.out.undefined
  /\ name \in DOMAIN recognizer.names
  /\ HandlerNames(pure.out.result) = HandlerNames(recognizer.names[name].handlers)

\* C21: when registered routes accept the path, recognize returns one of
\* them that has the fewest star segments, among those the fewest dynamic
\* segments, among those the most static segments, in whatever order the
\* routes were added.
C21_Ranking ==
  (pure.fn = "recognize" /\ ~pure.out.threw /\ Accepting(PathOf(pure.url)) # {})
    => \E name \in Accepting(PathOf(pure.url)) :
         /\ Returned(name)
         /\ \A other \in Accepting(PathOf(pure.url)) : RanksNoWorse(name, other)

\* /a/b is recognized where /a/:x, then /*s, then /a/b were added: the
\* static route is returned.
C21_Witness ==
  /\ pure.fn = "recognize" /\ pure.url = << "/", "a", "/", "b" >>
  /\ DOMAIN recognizer.names = { "A", "S", "T" }
  /\ Returned("S")

\* C22: for every set of registered routes, recognize of an input whose
\* path no registered route accepts returns undefined and does not throw.
C22_NoMatchReturnsUndefined ==
  (pure.fn = "recognize" /\ Accepting(PathOf(pure.url)) = {})
    => pure.out.undefined /\ ~pure.out.threw

\* The accepting routes that rank best, and the one of them added first.
Best(path) ==
  { name \in Accepting(path) : \A other \in Accepting(path) : RanksNoWorse(name, other) }

AddedAt(name) == CHOOSE i \in 1..Len(pure.added) : pure.added[i] = name

FirstAdded(names) == CHOOSE name \in names : \A other \in names : AddedAt(name) <= AddedAt(other)

\* C26: when several routes that accept the path have the same, best,
\* counts of star, dynamic and static segments, recognize returns the one
\* of them that was added first.
C26_TieBreakFirstAdded ==
  (pure.fn = "recognize" /\ ~pure.out.threw /\ Cardinality(Best(PathOf(pure.url))) > 1)
    => Returned(FirstAdded(Best(PathOf(pure.url))))

\* The param names of the entries of an accepting state in a row, each with
\* the number of its entry.
RECURSIVE NamesInARow(_, _)
NamesInARow(handlers, k) ==
  IF k > Len(handlers) THEN << >>
  ELSE [j \in 1..Len(handlers[k].names) |-> [entry |-> k, name |-> handlers[k].names[j]]]
         \o NamesInARow(handlers, k + 1)

\* recognize returned a result for the latest call.
Found == pure.fn = "recognize" /\ ~pure.out.threw /\ ~pure.out.undefined

\* C27: the captures of the accepting state's regex go to the entries of
\* the accepting state from left to right, each entry taking as many as it
\* has param names: the i-th name of all, in the order of the entries, is
\* bound to the i-th capture in the params of its own entry, an entry has
\* no other params, and isDynamic tells that the entry has a param name.
C27_CaptureDistribution ==
  Found =>
    LET state == recognizer.states[pure.out.state]
        captures == matchFrom(state.regex, 1, PathOf(pure.url), 1).captures
        row == NamesInARow(state.handlers, 1)
    IN /\ Len(pure.out.result) = Len(state.handlers)
       /\ Len(captures) = Len(row)
       /\ \A i \in 1..Len(row) : pure.out.result[row[i].entry].params[row[i].name] = captures[i]
       /\ \A k \in 1..Len(state.handlers) :
            /\ pure.out.result[k].handler = state.handlers[k].handler
            /\ DOMAIN pure.out.result[k].params
                 = { state.handlers[k].names[j] : j \in 1..Len(state.handlers[k].names) }
            /\ pure.out.result[k].isDynamic = (Len(state.handlers[k].names) >= 1)

\* /a/b is recognized as the nested route: the first entry has no params,
\* the second takes the first capture and the third the second.
C27_Witness ==
  /\ Found /\ Returned("N")
  /\ pure.url = << "/", "a", "/", "b" >>
  /\ DOMAIN pure.out.result[1].params = {} /\ ~pure.out.result[1].isDynamic
  /\ pure.out.result[2].params[<< "p" >>] = << "a" >>
  /\ pure.out.result[3].params[<< "v" >>] = << "b" >> /\ pure.out.result[3].isDynamic

\* The latest call recognized the URL that generate returned for a
\* registered route and params without query params.
RoundTrip ==
  /\ pure.fn = "recognize" /\ pure.name \in DOMAIN recognizer.names
  /\ ~pure.hasQueryParams

\* The params of all entries of a result taken together.
ParamsOf(result) ==
  [name \in UNION { DOMAIN result[k].params : k \in 1..Len(result) } |->
     result[CHOOSE k \in 1..Len(result) : name \in DOMAIN result[k].params].params[name]]

ValuesFit(name, params) ==
  \A i \in 1..Len(recognizer.names[name].segments) :
    LET segment == recognizer.names[name].segments[i]
    IN segment.type \in {"dynamic", "star"}
         => /\ params[segment.string] # << >>
            /\ segment.type = "dynamic"
                 => \A j \in 1..Len(params[segment.string]) : params[segment.string][j] # "/"

QueryObject(pairs) ==
  [key \in { pairs[i].key : i \in 1..Len(pairs) } |->
     pairs[CHOOSE i \in 1..Len(pairs) : pairs[i].key = key].value]

Declares(handler, keys) ==
  keys \subseteq { handler.queryParams[j] : j \in 1..Len(handler.queryParams) }

\* C24: where the URL that generate returned for a named route and query
\* params Q, all of keys that handlers of the route declare, is recognized
\* as that route, the result entry of each handler that declares all keys
\* of Q has queryParams equal to Q, true staying true.
C24_QueryStringRoundTrip ==
  (/\ pure.fn = "recognize" /\ pure.hasQueryParams /\ Returned(pure.name)
   /\ DOMAIN QueryObject(pure.queryParams) \subseteq AllowedParams(recognizer.names[pure.name].handlers))
    => \A k \in 1..Len(pure.out.result) :
         Declares(recognizer.names[pure.name].handlers[k], DOMAIN QueryObject(pure.queryParams))
           => pure.out.result[k].queryParams = QueryObject(pure.queryParams)

\* The keys of the query string of a URL, as they are written, in order.
QueryKeys(url) ==
  IF indexOf(url, "?") = 0 THEN << >>
  ELSE LET pairs == split(SubSeq(url, indexOf(url, "?") + 1, Len(url)), "&")
       IN [i \in 1..Len(pairs) |-> split(pairs[i], "=")[1]]

\* The keys of params.queryParams as given, in order.
SuppliedKeys == [i \in 1..Len(pure.queryParams) |-> pure.queryParams[i].key]

UndeclaredKey ==
  /\ pure.hasQueryParams
  /\ \E i \in 1..Len(SuppliedKeys) :
       \A k \in 1..Len(recognizer.names[pure.name].handlers) :
         ~Declares(recognizer.names[pure.name].handlers[k], { SuppliedKeys[i] })

\* C25: generate throws for a name that is no registered named route and
\* for params.queryParams with a key that no handler of the route declares;
\* otherwise it returns a URL that starts with "/" and whose query string
\* has the keys supplied, each once and no other, all of them declared by
\* a handler of the route.
C25_GenerateThrowsOrReturnsURL ==
  pure.fn = "generate" =>
    IF pure.name \notin DOMAIN recognizer.names THEN pure.out.threw
    ELSE IF UndeclaredKey THEN pure.out.threw
    ELSE /\ ~pure.out.threw
         /\ pure.url # << >> /\ pure.url[1] = "/"
         /\ QueryKeys(pure.url) = [i \in 1..Len(SuppliedKeys) |-> encodeURIComponent(SuppliedKeys[i])]
         /\ \A i \in 1..Len(SuppliedKeys) :
              SuppliedKeys[i] \in AllowedParams(recognizer.names[pure.name].handlers)

\* generate was called for the nested route with the keys q and r, which
\* two of its handlers declare, and returned a URL with both.
C25_Witness ==
  /\ pure.fn = "generate" /\ pure.name = "N" /\ "N" \in DOMAIN recognizer.names
  /\ SuppliedKeys = << << "q" >>, << "r" >> >>
  /\ ~pure.out.threw
  /\ QueryKeys(pure.url) = << << "q" >>, << "r" >> >>

\* generate was called with a key that no handler declares, and threw.
C25_WitnessThrows ==
  /\ pure.fn = "generate" /\ pure.name = "Q" /\ "Q" \in DOMAIN recognizer.names
  /\ SuppliedKeys = << << "z" >> >>
  /\ pure.out.threw

(* ------------------ properties of the later router claims -------------- *)
\* C37: abort() on a Transition that is not router.activeTransition leaves
\* router.activeTransition as it is, and so does the abort that retry()
\* performs: performTransition finds the slot as it was before the call.
C37_AbortOfOtherKeepsSlot ==
  [][\A t \in Transitions :
       /\ (abort(t) /\ activeTransition # t) => activeTransition' = activeTransition
       /\ (retry(t, MaxTrans) /\ activeTransition # t) => lastCall'.found = activeTransition]_vars

MethodOf(op) ==
  CASE op = "handleURL" -> "null"
    [] op = "replaceWith" -> "replace"
    [] OTHER -> "update"

\* C35: a Transition is made with the URL method of the call that started
\* it (none for handleURL, replace for replaceWith, update for
\* transitionTo), keeps it whatever is requested while it is pending, and
\* its finalization calls that method (for handleURL none) and no other
\* step calls one.
C35_URLMethodByEntryPoint ==
  [][/\ (lastCall'.op \in EntryPoints /\ currentSequence' = currentSequence + 1)
          => trans'[currentSequence'].urlMethod = MethodOf(lastCall'.op)
     /\ \A t \in Transitions :
          /\ trans'[t].urlMethod = trans[t].urlMethod
          /\ trans'[t].urlCalls # trans[t].urlCalls
               => /\ transitionSuccess(t)
                  /\ trans[t].urlMethod # "null"
                  /\ trans'[t].urlCalls = Append(trans[t].urlCalls, trans[t].urlMethod)
          /\ (transitionSuccess(t) /\ ~trans[t].isAborted /\ trans[t].urlMethod # "null")
               => trans'[t].urlCalls # trans[t].urlCalls]_vars

\* A chain whose entries carry which chain they are of and their index, as
\* the HandlerInfo objects of two chains are different objects.
Tagged(chain, of) ==
  [i \in 1..Len(chain) |->
     [name |-> chain[i].name, context |-> chain[i].context,
      queryParams |-> chain[i].queryParams, of |-> of, index |-> i]]

Untagged(chain) ==
  [i \in 1..Len(chain) |-> ChainEntry(chain[i].name, chain[i].context, chain[i].queryParams)]

Reversed(chain) == [i \in 1..Len(chain) |-> chain[Len(chain) + 1 - i]]

\* C38: for all old and new chains, unchanged, updatedContext and entered
\* in a row are the new chain position by position, the unchanged entries
\* being the old chain's objects at their positions and the others the new
\* chain's; exited is the old chain from the position after the unchanged
\* and updated ones to its end, reversed; and no HandlerInfo object is in
\* two of the lists or twice in one.
C38_PartitionCoverage ==
  Partitioned =>
    LET old == Tagged(pure.old, "old")
        new == Tagged(pure.new, "new")
        out == partitionHandlers(old, new)
        u == Len(out.unchanged)
        c == Len(out.updatedContext)
        all == out.unchanged \o out.updatedContext \o out.entered \o out.exited
    IN /\ pure.out.unchanged = Untagged(out.unchanged)
       /\ pure.out.updatedContext = Untagged(out.updatedContext)
       /\ pure.out.entered = Untagged(out.entered)
       /\ pure.out.exited = Untagged(out.exited)
       /\ Untagged(out.unchanged \o out.updatedContext \o out.entered) = pure.new
       /\ out.unchanged = SubSeq(old, 1, u)
       /\ out.updatedContext \o out.entered = SubSeq(new, u + 1, Len(new))
       /\ out.exited = Reversed(SubSeq(old, u + c + 1, Len(old)))
       /\ Cardinality({ all[i] : i \in 1..Len(all) }) = Len(all)

\* Each of the four lists has an entry: the third handler of the old chain
\* is exited and another one is entered in its place.
C38_Witness ==
  /\ Partitioned
  /\ Len(pure.new) = 3 /\ Len(pure.old) = 3
  /\ Len(pure.out.unchanged) = 1 /\ Len(pure.out.updatedContext) = 1
  /\ Len(pure.out.entered) = 1 /\ Len(pure.out.exited) = 1
  /\ pure.out.exited[1] = pure.old[3] /\ pure.out.entered[1] = pure.new[3]

\* The calls setupContexts makes for the partition kept by T, in the order
\* of the code: one exit for each exited handler that defines it, then for
\* each handler of updatedContext and entered its enter (an entered handler
\* that defines it) and its setup.
RECURSIVE ItemCalls(_, _)
ItemCalls(todo, i) ==
  IF i > Len(todo) THEN << >>
  ELSE (IF callsEnter(todo[i]) THEN << HookCall("enter", todo[i].info.name) >> ELSE << >>)
       \o << HookCall("setup", todo[i].info.name) >>
       \o ItemCalls(todo, i + 1)

RECURSIVE ExitCalls(_, _)
ExitCalls(exited, i) ==
  IF i > Len(exited) THEN << >>
  ELSE (IF "exit" \in HandlerHooks(exited[i].name)
        THEN << HookCall("exit", exited[i].name) >> ELSE << >>)
       \o ExitCalls(exited, i + 1)

IsPrefix(a, b) == Len(a) <= Len(b) /\ a = SubSeq(b, 1, Len(a))

\* C33: the handlers a finalization exits are the tail of the old chain,
\* leaf first; the handlers it enters or updates are the rest of the new
\* chain past the unchanged ones, root first, entered exactly where the new
\* chain has left the old one; the hooks it calls are the exits in that
\* order, then enter and setup handler by handler in that order (enter for
\* entered handlers only), none of them on an unchanged handler; and a
\* Transition that ends fulfilled has made all of these calls.
C33_LifecycleOrdering ==
  [][\A t \in Transitions :
       /\ (running = 0 /\ running' = t) =>
            LET old == currentHandlerInfos
                new == trans[t].handlerInfos
                T == trans'[t]
                kept == Len(old) - Len(T.exited)
                u == Len(T.unchanged)
            IN /\ T.exited = Reversed(SubSeq(old, kept + 1, Len(old)))
               /\ T.unchanged = SubSeq(old, 1, u)
               /\ u <= kept
               /\ Len(T.todo) = Len(new) - u
               /\ \A i \in 1..Len(T.todo) :
                    /\ T.todo[i].info = new[u + i]
                    /\ T.todo[i].enter = (u + i > kept)
                    /\ ~T.todo[i].enter => old[u + i].name = new[u + i].name
       /\ running' = t =>
            /\ IsPrefix(trans'[t].lifecycle,
                        ExitCalls(trans'[t].exited, 1) \o ItemCalls(trans'[t].todo, 1))
            /\ \A i \in 1..Len(trans'[t].lifecycle), j \in 1..Len(trans'[t].unchanged) :
                 trans'[t].lifecycle[i].name # trans'[t].unchanged[j].name
       /\ (running = t /\ trans'[t].promise = "fulfilled") =>
            trans[t].lifecycle = ExitCalls(trans[t].exited, 1) \o ItemCalls(trans[t].todo, 1)]_vars

\* The finalization of a Transition to about after post was entered: post,
\* then app, have been exited and the setup of about is running.
C33_Witness ==
  \E t \in Transitions :
    /\ running = t
    /\ trans[t].lifecycle = << HookCall("exit", "post"), HookCall("exit", "app"),
                               HookCall("setup", "about") >>

\* C31: a Transition that is aborted commits nothing further: no step
\* records a further updateURL / replaceURL call or a further exit, enter
\* or setup call for it, and no step of its own callbacks (transitionSuccess
\* and the finalization it runs) changes router.currentHandlerInfos,
\* currentParams or currentQueryParams.
C31_AbortedCommitsNothing ==
  [][\A t \in Transitions :
       trans[t].isAborted =>
         /\ trans'[t].urlCalls = trans[t].urlCalls
         /\ Len(trans'[t].lifecycle) <= Len(trans[t].lifecycle)
         /\ (transitionSuccess(t) \/ hookReturns(t) \/ hookThrows(t))
              => UNCHANGED << currentHandlerInfos, currentParams, currentQueryParams >>]_vars

HandlerNamesOf(handlerInfos) == [i \in 1..Len(handlerInfos) |-> handlerInfos[i].name]

\* C39: whenever no finalization is in progress, router.currentHandlerInfos
\* and router.targetHandlerInfos name the same handlers in the same order.
C39_ConsistentCurrentState ==
  running = 0 => HandlerNamesOf(currentHandlerInfos) = HandlerNamesOf(targetHandlerInfos)

\* C36: when a call made from inside an enter or setup hook of a finalizing
\* Transition T starts a new Transition, T is aborted and the new Transition
\* takes router.activeTransition; when that hook returns, the finalization
\* of T ends with T rejected with TransitionAborted, the slot and the new
\* Transition left as they are; and a finalization that ends with T
\* fulfilled, T not aborted, leaves router.activeTransition null.
C36_RedirectDuringEnterOrSetup ==
  [][\A t \in Transitions :
       /\ (/\ running = t
           /\ trans[t].pc.at \in {"enter", "setup"}
           /\ currentSequence' = currentSequence + 1
           /\ trans'[currentSequence'].promise = "pending")
            => /\ activeTransition' = currentSequence'
               /\ trans'[t].isAborted
       /\ (/\ hookReturns(t)
           /\ trans[t].pc.at \in {"enter", "setup"}
           /\ trans[t].isAborted)
            => /\ trans'[t].promise = "rejected"
               /\ trans'[t].value = TransitionAborted
               /\ activeTransition' = activeTransition
               /\ \A n \in Transitions : n # t => trans'[n] = trans[n]
       /\ (/\ running = t
           /\ trans'[t].promise = "fulfilled"
           /\ ~trans[t].isAborted)
            => activeTransition' = 0]_vars

\* C32: reset calls exit on the handlers of router.currentHandlerInfos that
\* define it, the leaf first and the root last, and leaves
\* currentHandlerInfos and targetHandlerInfos cleared.
C32_ResetExitsLeafFirst ==
  [][reset =>
       /\ lastCall'.hooks = ExitCalls(Reversed(currentHandlerInfos), 1)
       /\ currentHandlerInfos' = << >>
       /\ targetHandlerInfos' = << >>]_vars

====
